---- MODULE Spec2Model ----
(***************************************************************************)
(* A model of the ipcz routing engine: the SequencedQueue that orders      *)
(* parcels (src/src/ipcz/sequenced_queue.h), the portal backend that the   *)
(* application retrieves parcels from                                      *)
(* (src/src/core/routed_portal_backend.cc) and the proxy bypass protocol   *)
(* carried by NodeLink (src/src/core/node_link.cc,                         *)
(* src/src/ipcz/remote_router_link.cc).                                    *)
(*                                                                         *)
(* C++ containers are 0-indexed; the sequences below are 1-indexed, so the *)
(* C++ element storage_[i] is storage[i + 1] here.                         *)
(***************************************************************************)
EXTENDS Integers, Sequences, FiniteSets, TLC

(* ---------------------------------------------------------------------- *)
(* Bounds of the model.                                                    *)
(* ---------------------------------------------------------------------- *)

\* Largest sequence number handed to SequencedQueue::Push.
MaxSeq == 2

\* Largest element size (ElementTraits::GetElementSize) of a pushed element.
MaxSize == 2

\* Largest initial sequence number a queue is constructed with.
MaxInitialSeq == 1

\* Largest number of parcels put on a route, both portals together.
MaxPuts == 2

\* Largest number of data bytes of a parcel put on a route, and of a buffer
\* passed to Get.
MaxParcelSize == 1

\* Largest number of parcels put on the route that crosses three nodes, both
\* portals together.
MaxRoutePuts == 3

\* Largest number of Put calls the threads that use traps make, both portals
\* together.
MaxTrapPuts == 2

\* Largest min_local_parcels a trap is created with.
MaxMinLocalParcels == 1

\* Number of cells of the MpmcQueue.
kCapacity == 2

\* Number of attempts PushBack and PopFront make before they give up.
kMaxRetries == 1

\* Number of values the producers of the MpmcQueue push, all together.
MaxValues == 3

\* Largest number of parcels put under limits, all portals together.
MaxLimitPuts == 2

\* Largest max_queued_parcels and max_queued_bytes a Put is given.
MaxPutLimit == 1

SeqNums == 0..MaxSeq
Sizes == 1..MaxSize
ParcelSizes == 1..MaxParcelSize

\* The number of two-phase puts committed on one portal.
MaxCommittedPuts == 1

\* The number of parcels with attached portals under way at one time.
MaxAttachPuts == 2

\* The number of parcels a router accepts over the NodeLink of two nodes.
MaxLinkParcels == 2

\* The number of callbacks of EstablishLink that wait for one name.
MaxCallbacks == 2

\* The number of bytes, and of handles, a transport serializes to.
MaxTransportHandles == 1

\* The number of times one thread calls NodeLink::Deactivate.
MaxDeactivateCalls == 2

\* The number of messages transmitted on one InProcessTransport.
MaxTransmits == 4

Lengths == 0..(MaxSeq + 1)

(* ---------------------------------------------------------------------- *)
(* SequencedQueue<T, ElementTraits>                                        *)
(* ---------------------------------------------------------------------- *)

\* SequencedQueue::GetMaxSequenceGap()
GetMaxSequenceGap == 1000000

\* An element T: here a parcel carrying its sequence number and a size.
Element(n, size) == [n |-> n, size |-> size]

\* A default-constructed T.
DefaultElement == Element(0, 0)

\* ElementTraits::GetElementSize(element)
GetElementSize(element) == element.size

\* absl::optional<Entry> holding no value.
NoEntry ==
  [has |-> FALSE, element |-> DefaultElement, num_entries_in_span |-> 0,
   total_span_size |-> 0, span_start |-> 0, span_end |-> 0]

\* absl::optional<SequenceNumber>, for final_sequence_length_.
NoLength == [has |-> FALSE, value |-> 0]
SomeLength(n) == [has |-> TRUE, value |-> n]

\* A queue right after SequencedQueue(initial_sequence_number).  `storage`
\* is storage_; `offset` and `size` are the view entries_ into it; `ub`
\* records that an operation dereferenced an empty optional or indexed
\* outside entries_.
NewQueue(initial_sequence_number) ==
  [storage |-> << >>, offset |-> 0, size |-> 0,
   base_sequence_number |-> initial_sequence_number,
   num_entries |-> 0, final_sequence_length |-> NoLength, ub |-> FALSE]

\* entries_[i] (i counted from 0).
EntryAt(q, i) == q.storage[q.offset + i + 1]

\* i < entries_.size() && entries_[i].has_value()
HasEntry(q, i) == i >= 0 /\ i < q.size /\ EntryAt(q, i).has

\* entries_[i] = e
SetEntry(q, i, e) == [q EXCEPT !.storage[q.offset + i + 1] = e]

\* SequencedQueue::current_sequence_number()
current_sequence_number(q) == q.base_sequence_number

\* SequencedQueue::HasNextElement()
HasNextElement(q) == q.size # 0 /\ EntryAt(q, 0).has

\* SequencedQueue::IsEmpty()
IsEmpty(q) == q.num_entries = 0

\* SequencedQueue::GetNumAvailableElements()
GetNumAvailableElements(q) ==
  IF q.size = 0 \/ ~EntryAt(q, 0).has THEN 0
  ELSE EntryAt(q, 0).num_entries_in_span

\* SequencedQueue::GetTotalAvailableElementSize()
GetTotalAvailableElementSize(q) ==
  IF q.size = 0 \/ ~EntryAt(q, 0).has THEN 0
  ELSE EntryAt(q, 0).total_span_size

\* SequencedQueue::GetCurrentSequenceLength()
GetCurrentSequenceLength(q) ==
  current_sequence_number(q) + GetNumAvailableElements(q)

\* Faulty variant of ExpectsMoreElements: once the final sequence length is
\* set no element is expected, whether or not all have been pushed.
ExpectsMoreElements_OnlyWithoutLength(q) == ~q.final_sequence_length.has

\* SequencedQueue::ExpectsMoreElements()
ExpectsMoreElements(q) ==
  IF ~q.final_sequence_length.has THEN TRUE
  ELSE IF q.base_sequence_number >= q.final_sequence_length.value THEN FALSE
  ELSE q.num_entries < q.final_sequence_length.value - q.base_sequence_number

\* SequencedQueue::IsDead()
IsDead(q) == ~HasNextElement(q) /\ ~ExpectsMoreElements(q)

\* Router::IsRouteDead() for a router whose inbound parcels are queued in q
\* and whose AcceptRouteClosure set q's final sequence length.
IsRouteDead(q) == IsDead(q)

\* The loop of Reallocate that moves the entries to the front of storage_.
MoveEntriesToFront(storage, offset, size) ==
  [k \in 1..Len(storage) |->
     IF k <= size THEN storage[offset + k]
     ELSE IF k > offset /\ k <= offset + size THEN NoEntry
     ELSE storage[k]]

\* storage_.resize(n)
ResizeStorage(storage, n) ==
  [k \in 1..n |-> IF k <= Len(storage) THEN storage[k] ELSE NoEntry]

\* SequencedQueue::Reallocate(sequence_length)
Reallocate(q, sequence_length) ==
  IF sequence_length < q.base_sequence_number
  THEN [ok |-> FALSE, q |-> q]
  ELSE
    LET new_entries_size == sequence_length - q.base_sequence_number IN
    IF new_entries_size > GetMaxSequenceGap
    THEN [ok |-> FALSE, q |-> q]
    ELSE IF Len(q.storage) - q.offset > new_entries_size
    THEN [ok |-> TRUE, q |-> [q EXCEPT !.size = new_entries_size]]
    ELSE
      LET moved == IF q.offset > 0
                   THEN MoveEntriesToFront(q.storage, q.offset, q.size)
                   ELSE q.storage
      IN [ok |-> TRUE,
          q |-> [q EXCEPT !.storage = ResizeStorage(moved, new_entries_size * 2),
                          !.offset = 0,
                          !.size = new_entries_size]]

\* SequencedQueue::PlaceNewEntry(index, n, element)
PlaceNewEntry(q, index, n, element) ==
  LET e0 == [has |-> TRUE, element |-> element, num_entries_in_span |-> 1,
             total_span_size |-> GetElementSize(element),
             span_start |-> 0, span_end |-> 0]
      e1 == IF index = 0 \/ ~HasEntry(q, index - 1)
            THEN [e0 EXCEPT !.span_start = n]
            ELSE LET left == EntryAt(q, index - 1) IN
                 [e0 EXCEPT !.span_start = left.span_start,
                            !.num_entries_in_span = @ + left.num_entries_in_span,
                            !.total_span_size = @ + left.total_span_size]
      entry == IF index = q.size - 1 \/ ~HasEntry(q, index + 1)
               THEN [e1 EXCEPT !.span_end = n]
               ELSE LET right == EntryAt(q, index + 1) IN
                    [e1 EXCEPT !.span_end = right.span_end,
                               !.num_entries_in_span = @ + right.num_entries_in_span,
                               !.total_span_size = @ + right.total_span_size]
      q1 == SetEntry(q, index, entry)
      start_index == IF entry.span_start <= q.base_sequence_number
                     THEN 0
                     ELSE entry.span_start - q.base_sequence_number
      end_index == entry.span_end - q.base_sequence_number
  IN
  IF ~(HasEntry(q1, start_index) /\ HasEntry(q1, end_index))
  THEN [q1 EXCEPT !.ub = TRUE, !.num_entries = @ + 1]
  ELSE
    LET q2 == SetEntry(q1, start_index,
                [EntryAt(q1, start_index) EXCEPT
                   !.span_end = entry.span_end,
                   !.num_entries_in_span = entry.num_entries_in_span,
                   !.total_span_size = entry.total_span_size])
        q3 == SetEntry(q2, end_index,
                [EntryAt(q2, end_index) EXCEPT
                   !.span_start = entry.span_start,
                   !.num_entries_in_span = entry.num_entries_in_span,
                   !.total_span_size = entry.total_span_size])
    IN [q3 EXCEPT !.num_entries = @ + 1]

\* SequencedQueue::ReduceNextElementSize(amount) on a queue whose next
\* element is present.
ReduceNextElementSize(q, amount) ==
  IF ~HasNextElement(q) \/ EntryAt(q, 0).total_span_size < amount
  THEN [q EXCEPT !.ub = TRUE]
  ELSE SetEntry(q, 0, [EntryAt(q, 0) EXCEPT !.total_span_size = @ - amount])

\* Faulty variant of IsOccupied: Push does not look at the slot it writes.
IsOccupied_Unchecked(q, index) == FALSE

\* entries_[index].has_value(), as Push tests it before placing an entry.
IsOccupied(q, index) == EntryAt(q, index).has

\* SequencedQueue::Push(n, element): the returned bool and the queue after.
\* Sequence numbers stay far below 2^64, so new_limit never wraps to 0.
Push(q, n, element) ==
  IF n < q.base_sequence_number
     \/ n - q.base_sequence_number > GetMaxSequenceGap
  THEN [ok |-> FALSE, q |-> q]
  ELSE
    LET index == n - q.base_sequence_number IN
    IF q.final_sequence_length.has
    THEN IF index >= q.size \/ IsOccupied(q, index)
         THEN [ok |-> FALSE, q |-> q]
         ELSE [ok |-> TRUE, q |-> PlaceNewEntry(q, index, n, element)]
    ELSE IF index < q.size
    THEN IF IsOccupied(q, index)
         THEN [ok |-> FALSE, q |-> q]
         ELSE [ok |-> TRUE, q |-> PlaceNewEntry(q, index, n, element)]
    ELSE
      LET new_limit == n + 1
          r == Reallocate(q, new_limit)
      IN IF ~r.ok
         THEN [ok |-> FALSE, q |-> q]
         ELSE [ok |-> TRUE, q |-> PlaceNewEntry(r.q, index, n, element)]

\* Faulty variant of NextAfterPop: the span's entry count is not decremented.
NextAfterPop_KeepCount(next, head, element) ==
  [next EXCEPT
     !.span_start = head.span_start,
     !.span_end = head.span_end,
     !.num_entries_in_span = head.num_entries_in_span,
     !.total_span_size = head.total_span_size - GetElementSize(element)]

\* Faulty variant of NextAfterPop: the popped element's size is not subtracted.
NextAfterPop_KeepSize(next, head, element) ==
  [next EXCEPT
     !.span_start = head.span_start,
     !.span_end = head.span_end,
     !.num_entries_in_span = head.num_entries_in_span - 1,
     !.total_span_size = head.total_span_size]

\* The metadata Pop gives the entry that follows the popped head.
NextAfterPop(next, head, element) ==
  [next EXCEPT
     !.span_start = head.span_start,
     !.span_end = head.span_end,
     !.num_entries_in_span = head.num_entries_in_span - 1,
     !.total_span_size = head.total_span_size - GetElementSize(element)]

\* The accounting Pop does for the entry after the head, when present.
PopUpdateNext(q, head, element, sequence_number) ==
  IF ~(q.size > 1 /\ EntryAt(q, 1).has)
  THEN q
  ELSE
    LET next == NextAfterPop(EntryAt(q, 1), head, element)
        q1 == SetEntry(q, 1, next)
        tail_index == next.span_end - sequence_number
    IN IF tail_index > 1
       THEN IF ~HasEntry(q1, tail_index)
            THEN [q1 EXCEPT !.ub = TRUE]
            ELSE SetEntry(q1, tail_index,
                   [EntryAt(q1, tail_index) EXCEPT
                      !.num_entries_in_span = next.num_entries_in_span,
                      !.total_span_size = next.total_span_size])
       ELSE q1

\* The part of Pop that removes the head entry, which is present.
PopHead(q) ==
  LET head == EntryAt(q, 0)
      element == head.element
      sequence_number == q.base_sequence_number
      q1 == PopUpdateNext(q, head, element, sequence_number)
      q2 == SetEntry(q1, 0, NoEntry)
      q3 == [q2 EXCEPT !.num_entries = @ - 1,
                       !.base_sequence_number = @ + 1,
                       !.offset = @ + 1,
                       !.size = @ - 1]
      q4 == IF q3.num_entries = 0 THEN [q3 EXCEPT !.offset = 0] ELSE q3
  IN [ok |-> TRUE, q |-> q4, element |-> element]

\* Faulty variant of Pop: a failing Pop overwrites the caller's element.
Pop_ClobbersElement(q, out) ==
  IF q.size = 0 \/ ~EntryAt(q, 0).has
  THEN [ok |-> FALSE, q |-> q, element |-> DefaultElement]
  ELSE PopHead(q)

\* SequencedQueue::Pop(element): the returned bool, the queue after and the
\* value `element` holds after the call (`out` is what it held before).
Pop(q, out) ==
  IF q.size = 0 \/ ~EntryAt(q, 0).has
  THEN [ok |-> FALSE, q |-> q, element |-> out]
  ELSE PopHead(q)

\* Faulty variant of SetFinalSequenceLength: a length already set is overwritten.
SetFinalSequenceLength_Again(q, length) ==
  IF length < q.base_sequence_number + q.size
  THEN [ok |-> FALSE, q |-> q]
  ELSE IF length - q.base_sequence_number > GetMaxSequenceGap
  THEN [ok |-> FALSE, q |-> q]
  ELSE
    LET r == Reallocate([q EXCEPT !.final_sequence_length = SomeLength(length)],
                        length)
    IN [ok |-> r.ok, q |-> r.q]

\* SequencedQueue::SetFinalSequenceLength(length)
SetFinalSequenceLength(q, length) ==
  IF q.final_sequence_length.has
  THEN [ok |-> FALSE, q |-> q]
  ELSE IF length < q.base_sequence_number + q.size
  THEN [ok |-> FALSE, q |-> q]
  ELSE IF length - q.base_sequence_number > GetMaxSequenceGap
  THEN [ok |-> FALSE, q |-> q]
  ELSE
    LET r == Reallocate([q EXCEPT !.final_sequence_length = SomeLength(length)],
                        length)
    IN [ok |-> r.ok, q |-> r.q]

\* SequencedQueue::SkipNextSequenceNumber()
SkipNextSequenceNumber(q) ==
  LET q1 == [q EXCEPT !.base_sequence_number = @ + 1] IN
  IF ~IsEmpty(q1)
  THEN [q1 EXCEPT !.offset = @ + 1, !.size = @ - 1]
  ELSE q1

(* ---------------------------------------------------------------------- *)
(* RoutedPortalBackend (src/src/core/routed_portal_backend.cc)             *)
(* ---------------------------------------------------------------------- *)

Portals == {"A", "B"}

\* The portal at the other end of the route.
Peer(p) == IF p = "A" THEN "B" ELSE "A"

IPCZ_PORTAL_STATUS_PEER_CLOSED == "PEER_CLOSED"
IPCZ_PORTAL_STATUS_DEAD == "DEAD"

\* IpczPutLimits; a limit of 0 is no limit.
PutLimits(max_queued_parcels, max_queued_bytes) ==
  [given |-> TRUE, max_queued_parcels |-> max_queued_parcels,
   max_queued_bytes |-> max_queued_bytes]

\* Put called with limits == nullptr.
NoPutLimits ==
  [given |-> FALSE, max_queued_parcels |-> 0, max_queued_bytes |-> 0]

IPCZ_BEGIN_PUT_ALLOW_PARTIAL == "ALLOW_PARTIAL"

\* A backend right after construction: status_ zeroed, nothing queued.
\* pending_parcel says that pending_parcel_ holds a parcel, and
\* pending_data_size is the size of that parcel's data; outgoing_parcels
\* holds the data sizes of the parcels in outgoing_parcels_.
NewBackend ==
  [incoming_parcels |-> << >>,
   outgoing_parcels |-> << >>,
   status |-> [flags |-> {}, num_local_parcels |-> 0, num_local_bytes |-> 0,
               num_remote_bytes |-> 0],
   in_two_phase_get |-> FALSE,
   pending_parcel |-> FALSE,
   pending_data_size |-> 0,
   closed |-> FALSE]

\* The outcome of a backend call: the IpczResult, the backend afterwards,
\* the parcel handed to the caller and the value left in *num_data_bytes.
Outcome(result, b, parcel, num_data_bytes) ==
  [result |-> result, b |-> b, parcel |-> parcel,
   num_data_bytes |-> num_data_bytes]

\* RoutedPortalBackend::AcceptParcel(parcel, dispatcher)
AcceptParcel(b, parcel) ==
  [b EXCEPT !.status.num_local_bytes = @ + parcel.size,
            !.status.num_local_parcels = @ + 1,
            !.incoming_parcels = Append(@, parcel)]

\* RoutedPortalBackend::Put(router, data, portals, os_handles, limits) with
\* no limits: the parcel built from `data` is handed to RouteParcel.
Put(b) ==
  IF b.pending_parcel
  THEN Outcome("ALREADY_EXISTS", b, DefaultElement, 0)
  ELSE Outcome("OK", b, DefaultElement, 0)

\* RoutedPortalBackend::BeginPut(flags, limits, num_data_bytes, data);
\* `has_data` says that the caller passed `data`.  The outcome carries the
\* value left in num_data_bytes.
BeginPut(b, flags, limits, num_data_bytes, has_data) ==
  LET refused == Outcome("RESOURCE_EXHAUSTED", b, DefaultElement,
                         num_data_bytes)
      begun(size) ==
        Outcome("OK",
                [b EXCEPT !.pending_parcel = TRUE,
                          !.pending_data_size = IF has_data THEN size ELSE 0],
                DefaultElement, size)
  IN
  IF b.pending_parcel
  THEN Outcome("ALREADY_EXISTS", b, DefaultElement, num_data_bytes)
  ELSE IF ~limits.given
  THEN begun(num_data_bytes)
  ELSE IF /\ limits.max_queued_parcels > 0
          /\ Len(b.outgoing_parcels) >= limits.max_queued_parcels
  THEN refused
  ELSE IF /\ limits.max_queued_bytes > 0
          /\ b.status.num_remote_bytes + num_data_bytes
               > limits.max_queued_bytes
  THEN IF /\ IPCZ_BEGIN_PUT_ALLOW_PARTIAL \in flags
          /\ b.status.num_remote_bytes < limits.max_queued_bytes
       THEN begun(limits.max_queued_bytes - b.status.num_remote_bytes)
       ELSE refused
  ELSE begun(num_data_bytes)

\* RoutedPortalBackend::CommitPut(router, num_data_bytes_produced, portals,
\* os_handles): the pending parcel, resized, is pushed on outgoing_parcels_.
CommitPut(b, num_data_bytes_produced) ==
  IF ~b.pending_parcel
  THEN Outcome("FAILED_PRECONDITION", b, DefaultElement, 0)
  ELSE IF b.pending_data_size < num_data_bytes_produced
  THEN Outcome("INVALID_ARGUMENT", b, DefaultElement, 0)
  ELSE Outcome("OK",
               [b EXCEPT !.pending_parcel = FALSE,
                         !.pending_data_size = 0,
                         !.outgoing_parcels =
                            Append(@, num_data_bytes_produced)],
               DefaultElement, num_data_bytes_produced)

\* RoutedPortalBackend::AbortPut()
AbortPut(b) ==
  IF ~b.pending_parcel
  THEN Outcome("FAILED_PRECONDITION", b, DefaultElement, 0)
  ELSE Outcome("UNIMPLEMENTED",
               [b EXCEPT !.pending_parcel = FALSE, !.pending_data_size = 0],
               DefaultElement, 0)

\* RoutedPortalBackend::Close(router, other_portals_to_close)
Close(b) == [b EXCEPT !.closed = TRUE]

\* Faulty variant of Get: the two results for an empty queue are exchanged.
Get_SwapsEmptyResults(b, num_data_bytes) ==
  IF b.in_two_phase_get
  THEN Outcome("ALREADY_EXISTS", b, DefaultElement, num_data_bytes)
  ELSE IF b.incoming_parcels = << >>
  THEN IF IPCZ_PORTAL_STATUS_PEER_CLOSED \in b.status.flags
       THEN Outcome("UNAVAILABLE", b, DefaultElement, num_data_bytes)
       ELSE Outcome("NOT_FOUND", b, DefaultElement, num_data_bytes)
  ELSE LET next_parcel == Head(b.incoming_parcels) IN
       IF next_parcel.size > num_data_bytes
       THEN Outcome("RESOURCE_EXHAUSTED", b, DefaultElement,
                    next_parcel.size)
       ELSE Outcome("OK",
                    [b EXCEPT !.incoming_parcels = Tail(@),
                              !.status.num_local_bytes = @ - next_parcel.size],
                    next_parcel, next_parcel.size)

\* RoutedPortalBackend::Get(data, num_data_bytes, ...) for parcels that
\* carry no portals and no OS handles; `num_data_bytes` is the capacity of
\* the caller's buffer.
Get(b, num_data_bytes) ==
  IF b.in_two_phase_get
  THEN Outcome("ALREADY_EXISTS", b, DefaultElement, num_data_bytes)
  ELSE IF b.incoming_parcels = << >>
  THEN IF IPCZ_PORTAL_STATUS_PEER_CLOSED \in b.status.flags
       THEN Outcome("NOT_FOUND", b, DefaultElement, num_data_bytes)
       ELSE Outcome("UNAVAILABLE", b, DefaultElement, num_data_bytes)
  ELSE LET next_parcel == Head(b.incoming_parcels) IN
       IF next_parcel.size > num_data_bytes
       THEN Outcome("RESOURCE_EXHAUSTED", b, DefaultElement,
                    next_parcel.size)
       ELSE Outcome("OK",
                    [b EXCEPT !.incoming_parcels = Tail(@),
                              !.status.num_local_bytes = @ - next_parcel.size],
                    next_parcel, next_parcel.size)

\* RoutedPortalBackend::BeginGet(data, num_data_bytes, ...); `has_data` says
\* that the caller passed both `data` and `num_data_bytes`.
BeginGet(b, has_data) ==
  IF b.in_two_phase_get
  THEN Outcome("ALREADY_EXISTS", b, DefaultElement, 0)
  ELSE IF b.incoming_parcels = << >>
  THEN IF IPCZ_PORTAL_STATUS_PEER_CLOSED \in b.status.flags
       THEN Outcome("NOT_FOUND", b, DefaultElement, 0)
       ELSE Outcome("UNAVAILABLE", b, DefaultElement, 0)
  ELSE LET next_parcel == Head(b.incoming_parcels) IN
       IF next_parcel.size > 0 /\ ~has_data
       THEN Outcome("RESOURCE_EXHAUSTED", b, DefaultElement,
                    next_parcel.size)
       ELSE Outcome("OK", [b EXCEPT !.in_two_phase_get = TRUE],
                    next_parcel, next_parcel.size)

\* Parcel::ConsumePartial(num_bytes_consumed, ...): the data view loses its
\* first num_bytes_consumed bytes.
ConsumePartial(parcel, num_bytes_consumed) ==
  [parcel EXCEPT !.size = @ - num_bytes_consumed]

\* RoutedPortalBackend::CommitGet(num_data_bytes_consumed, ...).  front() of
\* an empty queue is never reached: in_two_phase_get_ is set only while a
\* parcel is queued, and nothing but CommitGet removes it.
CommitGet(b, num_data_bytes_consumed) ==
  IF ~b.in_two_phase_get
  THEN Outcome("FAILED_PRECONDITION", b, DefaultElement, 0)
  ELSE LET next_parcel == Head(b.incoming_parcels) IN
       IF num_data_bytes_consumed > next_parcel.size
       THEN Outcome("INVALID_ARGUMENT", b, DefaultElement, 0)
       ELSE LET b1 ==
                  IF num_data_bytes_consumed = next_parcel.size
                  THEN [b EXCEPT !.incoming_parcels = Tail(@)]
                  ELSE [b EXCEPT !.incoming_parcels[1] =
                          ConsumePartial(@, num_data_bytes_consumed)]
            IN Outcome("OK",
                       [b1 EXCEPT
                          !.status.num_local_bytes =
                             @ - num_data_bytes_consumed,
                          !.in_two_phase_get = FALSE],
                       next_parcel, num_data_bytes_consumed)

\* Faulty variant of AbortGet: the parcel of the aborted get is dropped.
AbortGet_DropsParcel(b) ==
  IF ~b.in_two_phase_get
  THEN Outcome("FAILED_PRECONDITION", b, DefaultElement, 0)
  ELSE Outcome("OK",
               [b EXCEPT !.in_two_phase_get = FALSE,
                         !.incoming_parcels = Tail(@)],
               DefaultElement, 0)

\* RoutedPortalBackend::AbortGet()
AbortGet(b) ==
  IF ~b.in_two_phase_get
  THEN Outcome("FAILED_PRECONDITION", b, DefaultElement, 0)
  ELSE Outcome("OK", [b EXCEPT !.in_two_phase_get = FALSE],
               DefaultElement, 0)

(* ---------------------------------------------------------------------- *)
(* NodeLink (src/src/core/node_link.cc), RemoteRouterLink                  *)
(* (src/src/ipcz/remote_router_link.cc) and the routers they connect.      *)
(* ---------------------------------------------------------------------- *)

\* The nodes of a route whose B end moves: router R stays on N1, router P
\* starts as the B endpoint on N2 and is left behind as a proxy when the
\* portal moves to N3, where router S takes over.
Nodes == {"N1", "N2", "N3"}
Routers == {"R", "P", "S"}
NoRouter == "none"

NodeOf(router) ==
  IF router = "R" THEN "N1" ELSE IF router = "P" THEN "N2" ELSE "N3"

\* Routing ids of one NodeLink.
MaxRoutingId == 1
RoutingIds == 0..MaxRoutingId

\* The two ends of every NodeLink: <<local node, remote node>>.
NodeLinks == {l \in Nodes \X Nodes : l[1] # l[2]}

\* NodeLink::routes_ with no route bound.
NoRoutes == [routing_id \in RoutingIds |-> NoRouter]

\* NodeLink::AddRoute(routing_id, link_state_index, router, link_type):
\* try_emplace leaves an existing binding in place.
AddRoute(routes_, routing_id, router) ==
  IF routes_[routing_id] = NoRouter
  THEN [routes_ EXCEPT ![routing_id] = router]
  ELSE routes_

\* Faulty variant of RemoveRoute: the binding is left in the map.
RemoveRoute_KeepsRoute(routes_, routing_id) == routes_

\* NodeLink::RemoveRoute(routing_id)
RemoveRoute(routes_, routing_id) ==
  IF routes_[routing_id] = NoRouter
  THEN routes_
  ELSE [routes_ EXCEPT ![routing_id] = NoRouter]

\* NodeLink::GetRouter(routing_id)
GetRouter(routes_, routing_id) == routes_[routing_id]

\* A RouterLink to the router bound to routing_id at the remote node, and
\* the absence of a link.
Link(remote, routing_id) ==
  [valid |-> TRUE, remote |-> remote, routing_id |-> routing_id]
NoLink == [valid |-> FALSE, remote |-> "N1", routing_id |-> 0]

\* The RouterLinkState shared by the two ends of the link between R (side
\* A) and P (side B).
NewRouterLinkState ==
  [locked_by |-> "none", allowed_bypass_request_source |-> "none"]

\* RemoteRouterLink::TryLockForBypass(bypass_request_source) on `side`
TryLockForBypass(state, side, bypass_request_source) ==
  IF state.locked_by # "none"
  THEN [ok |-> FALSE, state |-> state]
  ELSE [ok |-> TRUE,
        state |-> [locked_by |-> side,
                   allowed_bypass_request_source |-> bypass_request_source]]

\* CanNodeRequestBypass answering for any node while the other side holds
\* the lock.
CanNodeRequestBypass_AnySource(state, side, bypass_request_source) ==
  state.locked_by = (IF side = "A" THEN "B" ELSE "A")

\* RemoteRouterLink::CanNodeRequestBypass(bypass_request_source) on a link
\* whose own side is `side`
CanNodeRequestBypass(state, side, bypass_request_source) ==
  /\ state.locked_by = (IF side = "A" THEN "B" ELSE "A")
  /\ state.allowed_bypass_request_source = bypass_request_source

\* The key P generates and hands to S alone.
BypassKey == 7

\* A PortalDescriptor: absent, or the serialized router of a moved portal.
NoDescriptor == [valid |-> FALSE]
PortalDescriptor(new_routing_id, next_incoming, next_outgoing, proxy_peer_node_name, proxy_peer_routing_id, bypass_key) ==
  [valid |-> TRUE,
   new_routing_id |-> new_routing_id,
   next_incoming_sequence_number |-> next_incoming,
   next_outgoing_sequence_number |-> next_outgoing,
   proxy_peer_node_name |-> proxy_peer_node_name,
   proxy_peer_routing_id |-> proxy_peer_routing_id,
   bypass_key |-> bypass_key]

\* Faulty variant of RemoteRouterLink_AcceptParcel: every parcel is sent
\* with sequence number 0.
RemoteRouterLink_AcceptParcel_Renumbers(routing_id, parcel) ==
  [type |-> "AcceptParcel", routing_id |-> routing_id,
   sequence_number |-> 0, data |-> parcel.size,
   descriptor |-> NoDescriptor]

\* RemoteRouterLink::AcceptParcel(parcel): the msg::AcceptParcel transmitted
\* for a parcel that carries no portal.
RemoteRouterLink_AcceptParcel(routing_id, parcel) ==
  [type |-> "AcceptParcel", routing_id |-> routing_id,
   sequence_number |-> parcel.n, data |-> parcel.size,
   descriptor |-> NoDescriptor]

\* The msg::AcceptParcel of the parcel that carries the moved portal.
AcceptParcelWithPortal(routing_id, descriptor) ==
  [type |-> "AcceptParcel", routing_id |-> routing_id,
   sequence_number |-> 0, data |-> 0, descriptor |-> descriptor]

\* NodeLink::OnAcceptParcel: the Parcel rebuilt from a msg::AcceptParcel.
ParcelOf(accept) == Element(accept.sequence_number, accept.data)

\* Faulty variant of BypassProxyMessage: the proxied outbound sequence
\* length is sent as 0.
BypassProxyMessage_ZeroLength(proxy_name, proxy_routing_id, new_routing_id, bypass_key, proxied_outbound_sequence_length) ==
  [type |-> "BypassProxy", proxy_name |-> proxy_name,
   proxy_routing_id |-> proxy_routing_id,
   new_routing_id |-> new_routing_id, bypass_key |-> bypass_key,
   proxied_outbound_sequence_length |-> 0]

\* The msg::BypassProxy that NodeLink::BypassProxy fills in.
BypassProxyMessage(proxy_name, proxy_routing_id, new_routing_id, bypass_key, proxied_outbound_sequence_length) ==
  [type |-> "BypassProxy", proxy_name |-> proxy_name,
   proxy_routing_id |-> proxy_routing_id,
   new_routing_id |-> new_routing_id, bypass_key |-> bypass_key,
   proxied_outbound_sequence_length |-> proxied_outbound_sequence_length]

\* RemoteRouterLink::StopProxying(inbound, outbound): the msg::StopProxying.
StopProxyingMessage(routing_id, inbound_sequence_length, outbound_sequence_length) ==
  [type |-> "StopProxying", routing_id |-> routing_id,
   inbound_sequence_length |-> inbound_sequence_length,
   outbound_sequence_length |-> outbound_sequence_length]

\* RemoteRouterLink::ProxyWillStop(sequence_length): the msg::ProxyWillStop.
ProxyWillStopMessage(routing_id, sequence_length) ==
  [type |-> "ProxyWillStop", routing_id |-> routing_id,
   sequence_length |-> sequence_length]

\* The lengths a proxy learns from StopProxying, and their absence.
NoStop ==
  [has |-> FALSE, inbound_sequence_length |-> 0,
   outbound_sequence_length |-> 0]
SomeStop(inbound_sequence_length, outbound_sequence_length) ==
  [has |-> TRUE, inbound_sequence_length |-> inbound_sequence_length,
   outbound_sequence_length |-> outbound_sequence_length]

\* A Router.  `inbound` queues the parcels coming from the other side of
\* the route and `outbound` those going to it; `paused` counts the
\* blockers of outbound transmission; `decaying_link` is the outward link
\* a bypass has replaced, on which parcels below
\* `length_from_decaying_link` are still expected; `bypass` is the progress
\* of NodeLink::BypassProxy for this router and `bypass_message` the
\* message it has filled in.
NewRouter(mode, next_incoming, next_outgoing, outward_link) ==
  [mode |-> mode,
   outbound_sequence_length |-> next_outgoing,
   paused |-> 0,
   outward_link |-> outward_link,
   inward_link |-> NoLink,
   decaying_link |-> NoLink,
   length_from_decaying_link |-> NoLength,
   inbound |-> NewQueue(next_incoming),
   outbound |-> NewQueue(next_outgoing),
   stop |-> NoStop,
   bypass |-> "none",
   descriptor |-> NoDescriptor,
   bypass_message |-> NoDescriptor]

RECURSIVE PopAll(_, _)
\* Pops every available element of q: the queue left and the elements
\* popped, appended to `popped_` in order.
PopAll(q, popped_) ==
  IF HasNextElement(q)
  THEN LET r == Pop(q, DefaultElement) IN PopAll(r.q, Append(popped_, r.element))
  ELSE [q |-> q, elements |-> popped_]

\* The AcceptParcel messages that carry `parcels` over `link`, each
\* addressed to the node at the other end of the link.
Transmissions(link, parcels) ==
  [i \in 1..Len(parcels) |->
     [to |-> link.remote,
      msg |-> RemoteRouterLink_AcceptParcel(link.routing_id, parcels[i])]]

\* What a router's step produces: the router afterwards, the messages it
\* transmits in order, and the routes it removes from its node's NodeLinks.
Effect(router, sends, removes) ==
  [router |-> router, sends |-> sends, removes |-> removes]

\* Router::FlushParcels for an endpoint: transmits the queued outbound
\* parcels over the outward link unless transmission is paused.
FlushOutbound(r) ==
  IF r.paused > 0 \/ ~r.outward_link.valid
  THEN Effect(r, << >>, {})
  ELSE LET all == PopAll(r.outbound, << >>) IN
       Effect([r EXCEPT !.outbound = all.q],
              Transmissions(r.outward_link, all.elements), {})

\* Router::SendOutgoingParcel(data, ...) for a parcel without portals.
SendOutgoingParcel(r, data) ==
  LET n == r.outbound_sequence_length
      pushed == Push(r.outbound, n, Element(n, data))
  IN FlushOutbound([r EXCEPT !.outbound_sequence_length = n + 1,
                             !.outbound = pushed.q])

\* Router::SetOutwardLink(link): the link becomes the outward link, the
\* link it replaces decays, and the sequence number of the first parcel
\* not transmitted over the replaced link is returned.
SetOutwardLink(r, link) ==
  [router |-> [r EXCEPT !.decaying_link = r.outward_link,
                        !.outward_link = link],
   sequence_length |-> current_sequence_number(r.outbound)]

\* An endpoint drops its decaying link once every parcel expected from it
\* has arrived.
DropDecayingLink(e) ==
  LET r == e.router IN
  IF /\ r.decaying_link.valid
     /\ r.length_from_decaying_link.has
     /\ GetCurrentSequenceLength(r.inbound)
          >= r.length_from_decaying_link.value
  THEN Effect([r EXCEPT !.decaying_link = NoLink],
              e.sends, e.removes \cup {r.decaying_link})
  ELSE e

\* A proxy forwards what it can in both directions, and once it has been
\* told to stop and has forwarded every parcel below both lengths it
\* becomes dead and unbinds both of its links.
FlushProxy(r) ==
  LET inb == PopAll(r.inbound, << >>)
      outb == PopAll(r.outbound, << >>)
      r1 == [r EXCEPT !.inbound = inb.q, !.outbound = outb.q]
      sends == Transmissions(r.inward_link, inb.elements)
                 \o Transmissions(r.outward_link, outb.elements)
  IN
  IF /\ r1.stop.has
     /\ current_sequence_number(r1.inbound) >= r1.stop.inbound_sequence_length
     /\ current_sequence_number(r1.outbound)
          >= r1.stop.outbound_sequence_length
  THEN Effect([r1 EXCEPT !.mode = "Dead", !.inward_link = NoLink,
                         !.outward_link = NoLink],
              sends, {r.inward_link, r.outward_link})
  ELSE Effect(r1, sends, {})

\* Router::AcceptParcelFrom(link, routing_id, parcel): an endpoint queues
\* the parcel as inbound; a proxy queues it for the direction opposite to
\* the link it came from and forwards.
AcceptParcelFrom(r, remote, routing_id, parcel) ==
  IF r.mode = "Active"
  THEN DropDecayingLink(
         Effect([r EXCEPT !.inbound = Push(@, parcel.n, parcel).q], << >>, {}))
  ELSE IF r.mode = "Proxy"
  THEN IF r.outward_link = Link(remote, routing_id)
       THEN FlushProxy([r EXCEPT !.inbound = Push(@, parcel.n, parcel).q])
       ELSE FlushProxy([r EXCEPT !.outbound = Push(@, parcel.n, parcel).q])
  ELSE Effect(r, << >>, {})

\* Router::StopProxying(inbound_sequence_length, outbound_sequence_length):
\* the proxy records both lengths and tells its successor how many parcels
\* it will still forward.
StopProxying(r, inbound_sequence_length, outbound_sequence_length) ==
  LET e == FlushProxy([r EXCEPT !.stop =
             SomeStop(inbound_sequence_length, outbound_sequence_length)])
  IN Effect(e.router,
            <<[to |-> r.inward_link.remote,
               msg |-> ProxyWillStopMessage(r.inward_link.routing_id,
                                            inbound_sequence_length)]>>
              \o e.sends,
            e.removes)

(* ---------------------------------------------------------------------- *)
(* Trap (src/src/core/trap.cc) and the API calls that reach it             *)
(* (src/src/api/api.cc, src/src/core/portal.cc).                           *)
(* ---------------------------------------------------------------------- *)

IPCZ_NO_FLAGS == "NO_FLAGS"
IPCZ_DESTROY_TRAP_BLOCKING == "BLOCKING"

IPCZ_TRAP_CONDITION_PEER_CLOSED == "PEER_CLOSED"
IPCZ_TRAP_CONDITION_DEAD == "DEAD"
IPCZ_TRAP_CONDITION_LOCAL_PARCELS == "LOCAL_PARCELS"
IPCZ_TRAP_CONDITION_LOCAL_BYTES == "LOCAL_BYTES"
IPCZ_TRAP_CONDITION_REMOTE_PARCELS == "REMOTE_PARCELS"
IPCZ_TRAP_CONDITION_REMOTE_BYTES == "REMOTE_BYTES"

\* An IpczPortalStatus with nothing queued on either side.
NewPortalStatus ==
  [flags |-> {}, num_local_parcels |-> 0, num_local_bytes |-> 0,
   num_remote_parcels |-> 0, num_remote_bytes |-> 0]

\* IpczTrapConditions that watch for min_local_parcels queued parcels.
LocalParcelsConditions(min_local_parcels) ==
  [flags |-> {IPCZ_TRAP_CONDITION_LOCAL_PARCELS},
   min_local_parcels |-> min_local_parcels, min_local_bytes |-> 0,
   max_remote_parcels |-> 0, max_remote_bytes |-> 0]

\* Trap::Trap(portal, conditions, handler, context): enabled, not armed, no
\* dispatch running.
NewTrap(conditions) ==
  [conditions |-> conditions, is_enabled |-> TRUE, is_armed |-> FALSE,
   num_current_dispatches |-> 0]

\* Trap::GetEventFlags(status)
GetEventFlags(conditions, status) ==
  (IF /\ IPCZ_TRAP_CONDITION_PEER_CLOSED \in conditions.flags
      /\ IPCZ_PORTAL_STATUS_PEER_CLOSED \in status.flags
   THEN {IPCZ_TRAP_CONDITION_PEER_CLOSED} ELSE {})
  \cup
  (IF /\ IPCZ_TRAP_CONDITION_DEAD \in conditions.flags
      /\ IPCZ_PORTAL_STATUS_DEAD \in status.flags
   THEN {IPCZ_TRAP_CONDITION_DEAD} ELSE {})
  \cup
  (IF /\ IPCZ_TRAP_CONDITION_LOCAL_PARCELS \in conditions.flags
      /\ status.num_local_parcels >= conditions.min_local_parcels
   THEN {IPCZ_TRAP_CONDITION_LOCAL_PARCELS} ELSE {})
  \cup
  (IF /\ IPCZ_TRAP_CONDITION_LOCAL_BYTES \in conditions.flags
      /\ status.num_local_bytes >= conditions.min_local_bytes
   THEN {IPCZ_TRAP_CONDITION_LOCAL_BYTES} ELSE {})
  \cup
  (IF /\ IPCZ_TRAP_CONDITION_REMOTE_PARCELS \in conditions.flags
      /\ status.num_remote_parcels < conditions.max_remote_parcels
   THEN {IPCZ_TRAP_CONDITION_REMOTE_PARCELS} ELSE {})
  \cup
  (IF /\ IPCZ_TRAP_CONDITION_REMOTE_BYTES \in conditions.flags
      /\ status.num_remote_bytes < conditions.max_remote_bytes
   THEN {IPCZ_TRAP_CONDITION_REMOTE_BYTES} ELSE {})

\* An output parameter the callee did not write, and one it wrote.
NotWritten == [written |-> FALSE]
Written(value) == [written |-> TRUE, value |-> value]

\* The outcome of Trap::Arm: the IpczResult, the trap afterwards and what
\* was written to *satisfied_condition_flags and *status.
ArmOutcome(result, trap_, satisfied_condition_flags, status) ==
  [result |-> result, trap |-> trap_,
   satisfied_condition_flags |-> satisfied_condition_flags,
   status |-> status]

\* Faulty variant of Arm: the trap is armed although a watched condition is
\* already satisfied.
Arm_ArmsWithConditionsMet(trap_, current_status) ==
  IF ~trap_.is_enabled
  THEN ArmOutcome("INVALID_ARGUMENT", trap_, NotWritten, NotWritten)
  ELSE IF trap_.is_armed
  THEN ArmOutcome("ALREADY_EXISTS", trap_, NotWritten, NotWritten)
  ELSE
    LET flags == GetEventFlags(trap_.conditions, current_status) IN
    IF flags # {}
    THEN ArmOutcome("FAILED_PRECONDITION",
                    [trap_ EXCEPT !.is_armed = TRUE], Written(flags),
                    Written(current_status))
    ELSE ArmOutcome("OK", [trap_ EXCEPT !.is_armed = TRUE], NotWritten,
                    NotWritten)

\* Trap::Arm(satisfied_condition_flags, status) with both pointers given;
\* `current_status` is locked_router.status().
Arm(trap_, current_status) ==
  IF ~trap_.is_enabled
  THEN ArmOutcome("INVALID_ARGUMENT", trap_, NotWritten, NotWritten)
  ELSE IF trap_.is_armed
  THEN ArmOutcome("ALREADY_EXISTS", trap_, NotWritten, NotWritten)
  ELSE
    LET flags == GetEventFlags(trap_.conditions, current_status) IN
    IF flags # {}
    THEN ArmOutcome("FAILED_PRECONDITION", trap_, Written(flags),
                    Written(current_status))
    ELSE ArmOutcome("OK", [trap_ EXCEPT !.is_armed = TRUE], NotWritten,
                    NotWritten)

\* Trap::HasNoCurrentDispatches()
HasNoCurrentDispatches(trap_) == trap_.num_current_dispatches = 0

\* Trap::Disable(flags): `proceeds` is the condition the MutexLock waits
\* for; the trap afterwards is disabled.
Disable(trap_, flags) ==
  [proceeds |-> IF flags = IPCZ_DESTROY_TRAP_BLOCKING
                THEN HasNoCurrentDispatches(trap_)
                ELSE TRUE,
   trap |-> [trap_ EXCEPT !.is_enabled = FALSE]]

\* An event handed to TrapEventDispatcher::DeferEvent.
TrapEvent(condition_flags, status) ==
  [condition_flags |-> condition_flags, status |-> status]

\* Faulty variant of UpdatePortalStatus: the trap stays armed after its
\* event is deferred.
UpdatePortalStatus_StaysArmed(trap_, status) ==
  LET event_flags == GetEventFlags(trap_.conditions, status) IN
  IF ~trap_.is_enabled \/ ~trap_.is_armed \/ event_flags = {}
  THEN [trap |-> trap_, deferred |-> << >>]
  ELSE [trap |-> trap_, deferred |-> <<TrapEvent(event_flags, status)>>]

\* Trap::UpdatePortalStatus(status, dispatcher): the trap afterwards and the
\* events deferred to the dispatcher.
UpdatePortalStatus(trap_, status) ==
  IF ~trap_.is_enabled \/ ~trap_.is_armed
  THEN [trap |-> trap_, deferred |-> << >>]
  ELSE
    LET event_flags == GetEventFlags(trap_.conditions, status) IN
    IF event_flags # {}
    THEN [trap |-> [trap_ EXCEPT !.is_armed = FALSE],
          deferred |-> <<TrapEvent(event_flags, status)>>]
    ELSE [trap |-> trap_, deferred |-> << >>]

\* Faulty variant of MaybeDispatchEvent_Begin: mutex_ stays locked while the
\* handler runs.
MaybeDispatchEvent_Begin_KeepsLock(trap_) ==
  IF ~trap_.is_enabled
  THEN [dispatches |-> FALSE, trap |-> trap_, locked |-> FALSE]
  ELSE [dispatches |-> TRUE,
        trap |-> [trap_ EXCEPT !.num_current_dispatches = @ + 1],
        locked |-> TRUE]

\* Trap::MaybeDispatchEvent up to the end of its first locked block:
\* whether the handler will be invoked, the trap afterwards, and whether
\* mutex_ is still locked when the block is left.
MaybeDispatchEvent_Begin(trap_) ==
  IF ~trap_.is_enabled
  THEN [dispatches |-> FALSE, trap |-> trap_, locked |-> FALSE]
  ELSE [dispatches |-> TRUE,
        trap |-> [trap_ EXCEPT !.num_current_dispatches = @ + 1],
        locked |-> FALSE]

\* Trap::MaybeDispatchEvent after the handler has returned.
MaybeDispatchEvent_End(trap_) ==
  [trap_ EXCEPT !.num_current_dispatches = @ - 1]

\* Router::RemoveTrap(trap): the trap is disabled; the call takes no flags.
RouterRemoveTrap(trap_) == Disable(trap_, IPCZ_NO_FLAGS)

\* Portal::DestroyTrap(trap)
PortalDestroyTrap(trap_) == RouterRemoveTrap(trap_)

\* DestroyTrap(portal, trap, flags, options) of the API: `flags` is not
\* passed on.
DestroyTrap(trap_, flags) == PortalDestroyTrap(trap_)

(* ---------------------------------------------------------------------- *)
(* MpmcQueue (src/src/mem/mpmc_queue.h).                                   *)
(* ---------------------------------------------------------------------- *)

kBusyBit == 1
kFullBit == 2

\* index / kCapacity
LapOf(index) == index \div kCapacity

\* index % kCapacity
CellOf(index) == index % kCapacity

\* lap << 2
LapStatus(lap) == lap * 4

\* status >> 2
StatusLap(status) == status \div 4

\* (status & kFullBit) != 0
HasFullBit(status) == (status \div kFullBit) % 2 = 1

\* (status & kBusyBit) != 0
HasBusyBit(status) == status % 2 = 1

\* empty_status of PushBack for the tail index it loaded.
EmptyStatus(tail) == LapStatus(LapOf(tail))

\* full_status of PopFront for the head index it loaded.
FullStatus(head) == LapStatus(LapOf(head)) + kFullBit

\* Faulty variant of PushBackClaims: any cell that is not busy is claimed,
\* whatever its lap and whether or not it is full.
PushBackClaims_AnyIdleCell(status, tail) == ~HasBusyBit(status)

\* The compare_exchange of PushBack succeeds on a cell with this status,
\* unless it fails spuriously.
PushBackClaims(status, tail) == status = EmptyStatus(tail)

\* PushBack found the cell full on the lap before its tail lap: the queue is
\* full.
PushBackFindsFull(status, tail) ==
  StatusLap(status) + 1 = LapOf(tail) /\ HasFullBit(status)

\* The compare_exchange of PopFront succeeds on a cell with this status,
\* unless it fails spuriously.
PopFrontClaims(status, head) == status = FullStatus(head)

\* PopFront found the cell empty on its head lap: the queue is empty.
PopFrontFindsEmpty(status, head) ==
  ~HasFullBit(status) /\ StatusLap(status) = LapOf(head)

\* A Cell of a queue in freshly mapped, zeroed memory.
NewCell == [data |-> 0, status |-> 0]

(* ---------------------------------------------------------------------- *)
(* Portal::Put (src/src/core/portal.cc) and the limits its router asks     *)
(* the outward link about.                                                 *)
(* ---------------------------------------------------------------------- *)

\* The portals of one node that Put is called on or that are attached:
\* A and B are the two ends of a local pair, E has its peer R on another
\* node, C is a portal of some other route.
PutHandles == {"A", "B", "C", "E"}

\* The portals that receive what is put on A and on E.
Receivers == {"B", "R"}

\* The outward link of a portal's router: a LocalRouterLink to a router of
\* the same node or a RemoteRouterLink to a router of another node.
OutwardLink(p) ==
  CASE p = "A" -> [kind |-> "local", target |-> "B"]
    [] p = "B" -> [kind |-> "local", target |-> "A"]
    [] p = "E" -> [kind |-> "remote", target |-> "R"]
    [] p = "C" -> [kind |-> "remote", target |-> "D"]

\* The number of bytes of the parcels of a queue, given as their sizes.
RECURSIVE QueuedBytes(_)
QueuedBytes(sizes) ==
  IF sizes = << >> THEN 0 ELSE Head(sizes) + QueuedBytes(Tail(sizes))

\* Router::WouldIncomingParcelExceedLimits(data_size, limits) of a router
\* whose incoming parcel queue holds parcels of these sizes.
WouldIncomingParcelExceedLimits(sizes, data_size, limits) ==
  \/ /\ limits.max_queued_parcels > 0
     /\ Len(sizes) + 1 > limits.max_queued_parcels
  \/ /\ limits.max_queued_bytes > 0
     /\ QueuedBytes(sizes) + data_size > limits.max_queued_bytes

\* LocalRouterLink::WouldParcelExceedLimits(data_size, limits): the local
\* target is asked.
LocalRouterLink_WouldParcelExceedLimits(sizes, data_size, limits) ==
  WouldIncomingParcelExceedLimits(sizes, data_size, limits)

\* RemoteRouterLink::WouldParcelExceedLimits(data_size, limits)
RemoteRouterLink_WouldParcelExceedLimits(data_size, limits) == FALSE

\* Router::WouldOutgoingParcelExceedLimits(data_size, limits) of the router
\* of portal p: its outward link is asked; `sizes` is the incoming parcel
\* queue of the link's target.
WouldOutgoingParcelExceedLimits(p, sizes, data_size, limits) ==
  IF OutwardLink(p).kind = "local"
  THEN LocalRouterLink_WouldParcelExceedLimits(sizes, data_size, limits)
  ELSE RemoteRouterLink_WouldParcelExceedLimits(data_size, limits)

\* Router::HasLocalPeer(other) of the router of portal p.
HasLocalPeer(p, other) ==
  OutwardLink(p).kind = "local" /\ OutwardLink(p).target = other

\* Faulty variant of ValidateAndAcquirePortalsForTransitFrom: only the
\* sender itself is refused.
ValidateAndAcquirePortalsForTransitFrom_OnlySelf(sender, handles) ==
  \A i \in 1..Len(handles) : sender # handles[i]

\* ValidateAndAcquirePortalsForTransitFrom(sender, handles, portals)
ValidateAndAcquirePortalsForTransitFrom(sender, handles) ==
  \A i \in 1..Len(handles) :
    ~(sender = handles[i] \/ HasLocalPeer(sender, handles[i]))

\* The two-phase operations of Portal.
TwoPhaseOps ==
  {"BeginPut", "CommitPut", "AbortPut", "BeginGet", "CommitGet", "AbortGet"}

\* Portal::BeginPut, Portal::CommitPut, Portal::AbortPut, Portal::BeginGet,
\* Portal::CommitGet and Portal::AbortGet: the result each returns, whatever
\* its arguments and the state of the portal.
PortalTwoPhase(op) ==
  CASE op = "BeginPut" -> "UNIMPLEMENTED"
    [] op = "CommitPut" -> "UNIMPLEMENTED"
    [] op = "AbortPut" -> "UNIMPLEMENTED"
    [] op = "BeginGet" -> "UNIMPLEMENTED"
    [] op = "CommitGet" -> "UNIMPLEMENTED"
    [] op = "AbortGet" -> "UNIMPLEMENTED"

\* Portal::Put(data, portal_handles, os_handles, limits) up to the call of
\* Router::SendOutgoingParcel: the result it returns early with, or "send".
PortalPut(sender, data_size, handles, limits, sizes, peer_closed) ==
  IF ~ValidateAndAcquirePortalsForTransitFrom(sender, handles)
  THEN "INVALID_ARGUMENT"
  ELSE IF /\ limits.given
          /\ WouldOutgoingParcelExceedLimits(sender, sizes, data_size, limits)
  THEN "RESOURCE_EXHAUSTED"
  ELSE IF peer_closed
  THEN "NOT_FOUND"
  ELSE "send"

(* ---------------------------------------------------------------------- *)
(* Parcel (src/src/core/parcel.cc) and the portals attached to it.          *)
(* ---------------------------------------------------------------------- *)

\* A Ref<Portal> that refers to nothing.
NullPortal == "null"

\* The portals an application attaches to its parcels, and the portals
\* that NodeLink::OnAcceptParcel makes for them on the receiving node.
SentPortals == {"X", "Y"}
NewPortalOf(portal) == IF portal = "X" THEN "X2" ELSE "Y2"
ReceivedPortals == {NewPortalOf(portal) : portal \in SentPortals}

\* A Parcel after SetData and SetPortals: the size of its data view and
\* portals_, a vector of references.
ParcelWith(size, portals) == [size |-> size, portals |-> portals]

\* The portals a vector of references refers to.
Referenced(portals) ==
  {portals[i] : i \in 1..Len(portals)} \ {NullPortal}

\* Parcel::~Parcel(): the portals it closes.
Parcel_Destroy(parcel) == Referenced(parcel.portals)

\* Parcel::ConsumePortalsAndHandles(portals, os_handles): every reference
\* is released into the caller's array and portals_ is cleared.
ConsumePortalsAndHandles(parcel) ==
  [parcel |-> [parcel EXCEPT !.portals = << >>],
   handles |-> parcel.portals]

\* Parcel::Consume(portals, os_handles)
Parcel_Consume(parcel) ==
  LET c == ConsumePortalsAndHandles(parcel) IN
  [parcel |-> [c.parcel EXCEPT !.size = 0], handles |-> c.handles]

\* Parcel::ConsumePartial(num_bytes_consumed, portals, os_handles)
Parcel_ConsumePartial(parcel, num_bytes_consumed) ==
  LET c == ConsumePortalsAndHandles(
             [parcel EXCEPT !.size = @ - num_bytes_consumed])
  IN [parcel |-> c.parcel, handles |-> c.handles]

\* Faulty variant of TransmitParcel: the references to the transferred
\* portals stay in the parcel.
TransmitParcel_KeepsPortals(parcel) ==
  [message |-> [type |-> "AcceptParcel", data |-> parcel.size,
                new_routers |-> parcel.portals],
   parcel |-> parcel,
   transferred |-> Referenced(parcel.portals)]

\* RemoteRouterLink::AcceptParcel(parcel): a descriptor is serialized for
\* each attached portal, the message is transmitted, and the reference to
\* each transferred portal is moved out of the parcel.
TransmitParcel(parcel) ==
  [message |-> [type |-> "AcceptParcel", data |-> parcel.size,
                new_routers |-> parcel.portals],
   parcel |-> [parcel EXCEPT !.portals =
                 [i \in 1..Len(parcel.portals) |-> NullPortal]],
   transferred |-> Referenced(parcel.portals)]

\* NodeLink::OnAcceptParcel: the Parcel built from a msg::AcceptParcel, with
\* a new portal for each descriptor.
ReceivedParcel(accept) ==
  ParcelWith(accept.data,
             [i \in 1..Len(accept.new_routers) |->
                NewPortalOf(accept.new_routers[i])])

\* RoutedPortalBackend::Get on a queue of parcels with attached portals,
\* called with room for all of the data and for available_portal_storage
\* portals: the result, the queue afterwards, the handles written to the
\* caller's array and the portals closed with the popped parcel.
GetWithPortals(parcels, in_two_phase_get, available_portal_storage) ==
  LET none == [result |-> "OK", parcels |-> parcels, handles |-> << >>,
               closed |-> {}]
  IN
  IF in_two_phase_get THEN [none EXCEPT !.result = "ALREADY_EXISTS"]
  ELSE IF parcels = << >> THEN [none EXCEPT !.result = "UNAVAILABLE"]
  ELSE IF Len(Head(parcels).portals) > available_portal_storage
  THEN [none EXCEPT !.result = "RESOURCE_EXHAUSTED"]
  ELSE LET c == Parcel_Consume(Head(parcels)) IN
       [result |-> "OK", parcels |-> Tail(parcels), handles |-> c.handles,
        closed |-> Parcel_Destroy(c.parcel)]

\* RoutedPortalBackend::CommitGet on such a queue during a two-phase get.
CommitGetWithPortals(parcels, in_two_phase_get, num_data_bytes_consumed, available_portal_storage) ==
  LET none == [result |-> "OK", parcels |-> parcels, handles |-> << >>,
               closed |-> {}]
  IN
  IF ~in_two_phase_get THEN [none EXCEPT !.result = "FAILED_PRECONDITION"]
  ELSE IF num_data_bytes_consumed > Head(parcels).size
  THEN [none EXCEPT !.result = "INVALID_ARGUMENT"]
  ELSE IF available_portal_storage < Len(Head(parcels).portals)
  THEN [none EXCEPT !.result = "RESOURCE_EXHAUSTED"]
  ELSE IF num_data_bytes_consumed = Head(parcels).size
  THEN LET c == Parcel_Consume(Head(parcels)) IN
       [result |-> "OK", parcels |-> Tail(parcels), handles |-> c.handles,
        closed |-> Parcel_Destroy(c.parcel)]
  ELSE LET c == Parcel_ConsumePartial(Head(parcels),
                                      num_data_bytes_consumed)
       IN [result |-> "OK", parcels |-> <<c.parcel>> \o Tail(parcels),
           handles |-> c.handles, closed |-> {}]

(* ---------------------------------------------------------------------- *)
(* A NodeLink and its transport: deactivation (node_link.cc), the checks   *)
(* a received message goes through (driver_transport.cc, node_link.cc)     *)
(* and the driver's handling of their result                               *)
(* (single_process_reference_driver.cc).                                   *)
(* ---------------------------------------------------------------------- *)

\* Two nodes with a NodeLink to each other, and on each node one router
\* bound to routing id 0 of its NodeLink.
LinkNodes == {"N1", "N2"}
RemoteNode(n) == IF n = "N1" THEN "N2" ELSE "N1"
LinkRouterOf(n) == IF n = "N1" THEN "R1" ELSE "R2"
LinkRouters == {LinkRouterOf(n) : n \in LinkNodes}

\* A NodeLink right after construction, with `router` bound to routing id 0.
NewNodeLink(router) ==
  [active |-> TRUE, routes |-> AddRoute(NoRoutes, 0, router)]

\* Deactivate deactivating the transport whether or not the link was
\* active.
NodeLink_Deactivate_EveryCall(link) ==
  [link |-> [active |-> FALSE, routes |-> NoRoutes],
   deactivates_transport |-> TRUE]

\* NodeLink::Deactivate(): routes_ is cleared; a link that was active
\* becomes inactive and deactivates its transport.
NodeLink_Deactivate(link) ==
  [link |-> [active |-> FALSE, routes |-> NoRoutes],
   deactivates_transport |-> link.active]

\* NodeLink::OnTransportError()
OnTransportError(link) == link

\* A message as the checks on reception see it: has_header says that the
\* data is at least as large as a MessageHeader, header_size_ok that the
\* size in the header is, has_params that the data is at least as large as
\* the message it claims to be, and handles_match that it came with as many
\* handles as it says.
TransportMessage(message_id, routing_id, has_header, header_size_ok, has_params, handles_match) ==
  [message_id |-> message_id, routing_id |-> routing_id,
   has_header |-> has_header, header_size_ok |-> header_size_ok,
   has_params |-> has_params, handles_match |-> handles_match]

\* NodeLink::OnAcceptParcel(message): whether the message is accepted.
OnAcceptParcel_Accepts(message) ==
  message.has_params /\ message.handles_match

\* NodeLink::OnIntroduceNode(message) on a link whose remote node is no
\* broker.
OnIntroduceNode_Accepts(message) == FALSE

\* NodeLink::OnTransportMessage(message): the result returned to the
\* transport.
OnTransportMessage(message) ==
  CASE message.message_id = "AcceptParcel" ->
         IF OnAcceptParcel_Accepts(message) THEN "OK" ELSE "INVALID_ARGUMENT"
    [] message.message_id = "SideClosed" ->
         IF message.has_params THEN "OK" ELSE "INVALID_ARGUMENT"
    [] message.message_id = "IntroduceNode" ->
         IF OnIntroduceNode_Accepts(message) THEN "OK"
         ELSE "INVALID_ARGUMENT"
    [] message.message_id = "StopProxying" ->
         IF message.has_params THEN "OK" ELSE "INVALID_ARGUMENT"
    [] OTHER -> "OK"

\* DriverTransport::Notify(message)
DriverTransport_Notify(message) ==
  IF ~message.has_header THEN "INVALID_ARGUMENT"
  ELSE IF ~message.header_size_ok THEN "INVALID_ARGUMENT"
  ELSE OnTransportMessage(message)

\* TransportWrapper::Notify(data, handles): the result of the activity
\* handler, and whether NotifyError is called for it.
TransportWrapper_Notify(message) ==
  LET result == DriverTransport_Notify(message) IN
  [result |-> result,
   notifies_error |-> result # "OK" /\ result # "UNIMPLEMENTED"]

(* ---------------------------------------------------------------------- *)
(* A SequencedQueue driven by a caller, as in                              *)
(* src/src/core/incoming_parcel_queue_test.cc.                             *)
(* ---------------------------------------------------------------------- *)

VARIABLES
  queue,    \* the SequencedQueue under test
  initial,  \* the initial_sequence_number it was constructed with
  out,      \* the caller's element passed by reference to Pop
  popped,   \* the elements successful Pops returned, in order
  held,     \* the elements pushed successfully and not yet popped
  last      \* the last call: its name, arguments and returned bool

qvars == <<queue, initial, out, popped, held, last>>

\* A pair of portals whose Puts reach the peer's RoutedPortalBackend.
VARIABLES
  backend,  \* portal -> its RoutedPortalBackend
  route,    \* portal -> the sequence lengths its router keeps for the route
  wire,     \* portal -> the messages routed to it and not yet accepted
  put_log,  \* portal -> the parcels it has put, in order
  got,      \* portal -> the parcels it has retrieved completely, in order
  pcall     \* the last portal call: name, portal, result and parcel

pvars == <<backend, route, wire, put_log, got, pcall>>

\* A route across three nodes.
VARIABLES
  routers,          \* router -> its Router
  routes,           \* <<node, remote node>> -> routes_ of that NodeLink
  transport,        \* <<from, to>> -> messages transmitted, not yet received
  link_state,       \* the RouterLinkState of the link between R and P
  next_routing_id,  \* pair of nodes -> next routing id of their NodeLink
  sent,             \* side -> the parcels put on its portal, in order
  received,         \* side -> the parcels retrieved from its portal
  arrived,          \* the parcels R has accepted, each with the node
                    \* whose NodeLink carried it
  num_arrived,      \* the number of parcels R has accepted
  dropped           \* the parcels received for a routing id with no route

rvars == <<routers, routes, transport, link_state, next_routing_id, sent,
           received, arrived, num_arrived, dropped>>

\* A pair of portals with one trap each and threads that call the API on
\* them, as in src/src/api/integration_tests/trap_test.cc.
VARIABLES
  trap,            \* portal -> the Trap created on it
  router_status,   \* portal -> status_ of its Router
  dispatch_stack,  \* thread -> the events it has deferred or is
                   \* dispatching, innermost first
  trap_mutex,      \* portal -> the thread that holds mutex_ of its Trap
  num_armed,       \* portal -> the number of ArmTrap calls that returned OK
  num_invoked,     \* portal -> the number of times its handler was entered
  destroyed,       \* portal -> the flags of the DestroyTrap that returned
  num_trap_puts,   \* the number of Put calls made
  tcall            \* the last ArmTrap or DestroyTrap call and its outcome

tvars == <<trap, router_status, dispatch_stack, trap_mutex, num_armed,
           num_invoked, destroyed, num_trap_puts, tcall>>

\* An MpmcQueue shared by producer and consumer threads, as in
\* src/src/mem/mpmc_queue_test.cc.
VARIABLES
  cells,        \* cell index -> the Cell
  head_,        \* index of the head of the queue
  tail_,        \* index of the tail of the queue
  mq_thread,    \* thread -> where it is within PushBack or PopFront, with
                \* its local `tail` or `head`, `attempts` and `value`
  next_value,   \* the next value a producer will push, the first being 1
  pushed_ok,    \* the values for which PushBack returned true
  popped_ok     \* value -> the number of successful PopFront calls that
                \* returned it

mvars == <<cells, head_, tail_, mq_thread, next_value, pushed_ok, popped_ok>>

\* The portals of one node on which Put is called with attached portals
\* and limits.
VARIABLES
  incoming,       \* receiver -> the sizes of the parcels queued at its
                  \* router and not yet retrieved
  next_outgoing,  \* portal -> the sequence number its next parcel gets
  in_transit,     \* the portals that were attached to a parcel sent
  closed,         \* the receivers whose portal was closed
  put_call        \* the last Put: the portal it was called on, the portal
                  \* handles it attached and its result

uvars == <<incoming, next_outgoing, in_transit, closed, put_call>>

\* Parcels with attached portals on their way from one node to another.
VARIABLES carried

cvars == <<carried>>

\* the sender's Parcels not yet given to its outward link, oldest first
outgoing_parcels == carried.outgoing_parcels
\* the msg::AcceptParcel transmitted and not received
accept_messages == carried.accept_messages
\* the receiver's incoming queue
incoming_parcels == carried.incoming_parcels
\* in_two_phase_get_ of the receiver
in_two_phase_get == carried.in_two_phase_get
\* the receiving router is bound in routes_
receiver_bound == carried.receiver_bound
\* the sender's portals no Put has attached
unattached == carried.unattached
\* portal -> how often it was handed to the application, handed on in a
\* transmitted parcel and closed
disposed == carried.disposed

\* Two nodes, the NodeLink of each to the other, and a router on each.
VARIABLES node_link

dvars == <<node_link>>

\* node -> its NodeLink to the other node
link_end == node_link.link_end
\* node -> its transport is activated (InProcessTransport::transport_ is
\* set)
wrapper == node_link.wrapper
\* router -> whether it has observed peer closure and the number of parcels
\* it has accepted
link_router == node_link.link_router
\* the nodes on which Node::ShutDown has run
node_shut_down == node_link.node_shut_down
\* node -> the routing ids removed from its NodeLink by RemoveRoute
removed_routes == node_link.removed_routes
\* the last message transmitted: its receiver, the message, the result of
\* the receiver's checks and whether the driver notified an error
notified == node_link.notified

\* The lengths named in the StopProxying message that has been transmitted
\* to the proxy, kept after the message has been received.
VARIABLES stop_named

gvars == <<stop_named>>

\* A node, its broker and the introductions the node has asked for.
VARIABLES introduction

ivars == <<introduction>>

\* The RouterLinkState of one link and the calls running on its two ends.
VARIABLES bypass_lock

bvars == <<bypass_lock>>

\* A central RemoteRouterLink and the threads calling into it.
VARIABLES stable_link

svars == <<stable_link>>

\* A NodeLink and the threads calling Deactivate on it.
VARIABLES deactivation

nvars == <<deactivation>>

\* A pair of InProcessTransports and the threads calling into them.
VARIABLES in_process

evars == <<in_process>>

\* The variables of the models of single objects under concurrent calls.
yvars == <<ivars, bvars, svars, nvars, evars>>

\* The variables of the models added to the six above.
xvars == <<cvars, dvars, gvars, yvars>>

\* All variables but those of one of these models.
ExceptIntroduction == <<qvars, pvars, rvars, tvars, mvars, uvars, cvars, dvars, gvars, bvars, svars, nvars, evars>>
ExceptBypassLock == <<qvars, pvars, rvars, tvars, mvars, uvars, cvars, dvars, gvars, ivars, svars, nvars, evars>>
ExceptStableLink == <<qvars, pvars, rvars, tvars, mvars, uvars, cvars, dvars, gvars, ivars, bvars, nvars, evars>>
ExceptDeactivation == <<qvars, pvars, rvars, tvars, mvars, uvars, cvars, dvars, gvars, ivars, bvars, svars, evars>>
ExceptInProcess == <<qvars, pvars, rvars, tvars, mvars, uvars, cvars, dvars, gvars, ivars, bvars, svars, nvars>>

vars == <<qvars, pvars, rvars, tvars, mvars, uvars, xvars>>

Call(op, n, size, ok) == [op |-> op, n |-> n, size |-> size, ok |-> ok]

QueueInit ==
  /\ initial \in 0..MaxInitialSeq
  /\ queue = NewQueue(initial)
  /\ out = DefaultElement
  /\ popped = << >>
  /\ held = {}
  /\ last = Call("New", 0, 0, TRUE)

\* q.Push(n, Parcel n of `size` bytes)
DoPush(n, size) ==
  LET r == Push(queue, n, Element(n, size)) IN
  /\ queue' = r.q
  /\ held' = IF r.ok THEN held \cup {Element(n, size)} ELSE held
  /\ last' = Call("Push", n, size, r.ok)
  /\ UNCHANGED <<initial, out, popped>>

\* q.Pop(out)
DoPop ==
  LET r == Pop(queue, out) IN
  /\ queue' = r.q
  /\ out' = r.element
  /\ popped' = IF r.ok THEN Append(popped, r.element) ELSE popped
  /\ held' = IF r.ok THEN held \ {r.element} ELSE held
  /\ last' = Call("Pop", 0, 0, r.ok)
  /\ UNCHANGED initial

\* q.SetFinalSequenceLength(length)
DoSetFinalSequenceLength(length) ==
  LET r == SetFinalSequenceLength(queue, length) IN
  /\ queue' = r.q
  /\ last' = Call("SetFinalSequenceLength", length, 0, r.ok)
  /\ UNCHANGED <<initial, out, popped, held>>

\* q.SkipNextSequenceNumber(), called only when no element is available.
DoSkipNextSequenceNumber ==
  /\ ~HasNextElement(queue)
  /\ queue.base_sequence_number <= MaxSeq
  /\ queue' = SkipNextSequenceNumber(queue)
  /\ last' = Call("SkipNextSequenceNumber", 0, 0, TRUE)
  /\ UNCHANGED <<initial, out, popped, held>>

\* The owner of the queue consumes `amount` bytes of the next element
\* through NextElement(), and tells the queue with
\* ReduceNextElementSize(amount).
DoReduceNextElementSize(amount) ==
  LET next == EntryAt(queue, 0).element
      rest == Element(next.n, next.size - amount)
      consumed == SetEntry(queue, 0, [EntryAt(queue, 0) EXCEPT !.element = rest])
  IN
  /\ HasNextElement(queue)
  /\ amount <= GetElementSize(next)
  /\ queue' = ReduceNextElementSize(consumed, amount)
  /\ held' = (held \ {next}) \cup {rest}
  /\ last' = Call("ReduceNextElementSize", next.n, amount, TRUE)
  /\ UNCHANGED <<initial, out, popped>>

\* A run that exercises one part of the library constructs none of the
\* objects of the other parts: the variables that hold them are empty.
NotConstructed == << >>

\* The queue of a run in which no SequencedQueue is driven.
QueueIdle ==
  /\ initial = NotConstructed
  /\ queue = NotConstructed
  /\ out = NotConstructed
  /\ popped = NotConstructed
  /\ held = NotConstructed
  /\ last = NotConstructed

(* ---------------------------------------------------------------------- *)
(* Two portals A and B at the ends of one route.  Each Put is routed to    *)
(* the peer's backend; Close tells the peer how many parcels were sent.    *)
(* ---------------------------------------------------------------------- *)

\* The sequence lengths a portal's router keeps for its route.
NewRoute ==
  [outbound_sequence_length |-> 0,
   inbound_sequence_length |-> 0,
   peer_sequence_length |-> NoLength]

PortalCall(op, p, result, parcel, arg) ==
  [op |-> op, portal |-> p, result |-> result, parcel |-> parcel,
   arg |-> arg]

\* Messages routed to a portal: a parcel, or the peer's closure with the
\* length of the sequence of parcels the peer sent.
ParcelMessage(parcel) == [type |-> "AcceptParcel", parcel |-> parcel]
SideClosedMessage(sequence_length) ==
  [type |-> "SideClosed", sequence_length |-> sequence_length]

\* The status bits of a portal whose inbound sequence has drained to the
\* length its closed peer announced.
MarkStatus(b, r) ==
  IF /\ r.peer_sequence_length.has
     /\ b.incoming_parcels = << >>
     /\ r.inbound_sequence_length = r.peer_sequence_length.value
  THEN [b EXCEPT !.status.flags =
          @ \cup {IPCZ_PORTAL_STATUS_PEER_CLOSED, IPCZ_PORTAL_STATUS_DEAD}]
  ELSE b

PortalInit ==
  /\ backend = [p \in Portals |-> NewBackend]
  /\ route = [p \in Portals |-> NewRoute]
  /\ wire = [p \in Portals |-> << >>]
  /\ put_log = [p \in Portals |-> << >>]
  /\ got = [p \in Portals |-> << >>]
  /\ pcall = PortalCall("Open", "A", "OK", DefaultElement, 0)

NumPuts == Len(put_log["A"]) + Len(put_log["B"])

\* Put(p, data of `size` bytes)
DoPut(p, size) ==
  LET r == Put(backend[p])
      parcel == Element(route[p].outbound_sequence_length, size)
  IN
  /\ ~backend[p].closed
  /\ NumPuts < MaxPuts
  /\ IF r.result = "OK"
     THEN /\ route' = [route EXCEPT ![p].outbound_sequence_length = @ + 1]
          /\ wire' = [wire EXCEPT ![Peer(p)] =
                        Append(@, ParcelMessage(parcel))]
          /\ put_log' = [put_log EXCEPT ![p] = Append(@, parcel)]
     ELSE UNCHANGED <<route, wire, put_log>>
  /\ pcall' = PortalCall("Put", p, r.result, parcel, size)
  /\ UNCHANGED <<backend, got>>

\* BeginPut(p, flags, limits, num_data_bytes, data)
DoBeginPut(p, flags, limits, num_data_bytes, has_data) ==
  LET r == BeginPut(backend[p], flags, limits, num_data_bytes, has_data) IN
  /\ ~backend[p].closed
  /\ backend' = [backend EXCEPT ![p] = r.b]
  /\ pcall' = PortalCall("BeginPut", p, r.result, DefaultElement,
                         r.num_data_bytes)
  /\ UNCHANGED <<route, wire, put_log, got>>

\* CommitPut(p, num_data_bytes_produced)
DoCommitPut(p, num_data_bytes_produced) ==
  LET r == CommitPut(backend[p], num_data_bytes_produced) IN
  /\ ~backend[p].closed
  /\ Len(backend[p].outgoing_parcels) < MaxCommittedPuts
  /\ backend' = [backend EXCEPT ![p] = r.b]
  /\ pcall' = PortalCall("CommitPut", p, r.result, DefaultElement,
                         num_data_bytes_produced)
  /\ UNCHANGED <<route, wire, put_log, got>>

\* AbortPut(p)
DoAbortPut(p) ==
  LET r == AbortPut(backend[p]) IN
  /\ ~backend[p].closed
  /\ backend' = [backend EXCEPT ![p] = r.b]
  /\ pcall' = PortalCall("AbortPut", p, r.result, DefaultElement, 0)
  /\ UNCHANGED <<route, wire, put_log, got>>

\* Close(p)
DoClose(p) ==
  /\ ~backend[p].closed
  /\ backend' = [backend EXCEPT ![p] = Close(@)]
  /\ wire' = [wire EXCEPT ![Peer(p)] =
       Append(@, SideClosedMessage(route[p].outbound_sequence_length))]
  /\ pcall' = PortalCall("Close", p, "OK", DefaultElement, 0)
  /\ UNCHANGED <<route, put_log, got>>

\* The next message routed to p is a parcel: p's backend accepts it.
DeliverParcel(p) ==
  /\ wire[p] # << >>
  /\ Head(wire[p]).type = "AcceptParcel"
  /\ backend' = [backend EXCEPT ![p] = AcceptParcel(@, Head(wire[p]).parcel)]
  /\ route' = [route EXCEPT ![p].inbound_sequence_length = @ + 1]
  /\ wire' = [wire EXCEPT ![p] = Tail(@)]
  /\ pcall' = PortalCall("AcceptParcel", p, "OK", Head(wire[p]).parcel, 0)
  /\ UNCHANGED <<put_log, got>>

\* The next message routed to p is the peer's closure.
DeliverSideClosed(p) ==
  LET r == [route[p] EXCEPT !.peer_sequence_length =
              SomeLength(Head(wire[p]).sequence_length)]
  IN
  /\ wire[p] # << >>
  /\ Head(wire[p]).type = "SideClosed"
  /\ route' = [route EXCEPT ![p] = r]
  /\ backend' = [backend EXCEPT ![p] = MarkStatus(@, r)]
  /\ wire' = [wire EXCEPT ![p] = Tail(@)]
  /\ pcall' = PortalCall("SideClosed", p, "OK", DefaultElement, 0)
  /\ UNCHANGED <<put_log, got>>

\* Get(p) into a buffer of num_data_bytes bytes
DoGet(p, num_data_bytes) ==
  LET r == Get(backend[p], num_data_bytes) IN
  /\ ~backend[p].closed
  /\ backend' = [backend EXCEPT ![p] = MarkStatus(r.b, route[p])]
  /\ got' = IF r.result = "OK"
            THEN [got EXCEPT ![p] = Append(@, r.parcel)]
            ELSE got
  /\ pcall' = PortalCall("Get", p, r.result, r.parcel, num_data_bytes)
  /\ UNCHANGED <<route, wire, put_log>>

\* BeginGet(p)
DoBeginGet(p, has_data) ==
  LET r == BeginGet(backend[p], has_data) IN
  /\ ~backend[p].closed
  /\ backend' = [backend EXCEPT ![p] = r.b]
  /\ pcall' = PortalCall("BeginGet", p, r.result, r.parcel, 0)
  /\ UNCHANGED <<route, wire, put_log, got>>

\* CommitGet(p, num_data_bytes_consumed)
DoCommitGet(p, num_data_bytes_consumed) ==
  LET r == CommitGet(backend[p], num_data_bytes_consumed) IN
  /\ ~backend[p].closed
  /\ backend' = [backend EXCEPT ![p] = MarkStatus(r.b, route[p])]
  /\ got' = IF r.result = "OK" /\ num_data_bytes_consumed = r.parcel.size
            THEN [got EXCEPT ![p] = Append(@, r.parcel)]
            ELSE got
  /\ pcall' = PortalCall("CommitGet", p, r.result, r.parcel,
                         num_data_bytes_consumed)
  /\ UNCHANGED <<route, wire, put_log>>

\* AbortGet(p)
DoAbortGet(p) ==
  LET r == AbortGet(backend[p]) IN
  /\ ~backend[p].closed
  /\ backend' = [backend EXCEPT ![p] = r.b]
  /\ pcall' = PortalCall("AbortGet", p, r.result, DefaultElement, 0)
  /\ UNCHANGED <<route, wire, put_log, got>>

(* ---------------------------------------------------------------------- *)
(* A route between portal A (router R on N1) and portal B, which starts    *)
(* on N2 (router P) and may move to N3 (router S), leaving P behind as a   *)
(* proxy that S then asks R to bypass.                                     *)
(* ---------------------------------------------------------------------- *)

\* The routing id of the route whose parcel carries portal B from N2 to N3.
CarrierRoutingId == 0

\* The NodeLinkBuffer's allocator of routing ids, one per pair of nodes.
LinkName(a, b) == {a, b}

RouteInit ==
  /\ routers =
       [r \in Routers |->
          IF r = "R" THEN NewRouter("Active", 0, 0, Link("N2", 0))
          ELSE IF r = "P" THEN NewRouter("Active", 0, 0, Link("N1", 0))
          ELSE NewRouter("None", 0, 0, NoLink)]
  /\ routes =
       [l \in NodeLinks |->
          IF l = <<"N1", "N2">> THEN AddRoute(NoRoutes, 0, "R")
          ELSE IF l = <<"N2", "N1">> THEN AddRoute(NoRoutes, 0, "P")
          ELSE NoRoutes]
  /\ transport = [l \in NodeLinks |-> << >>]
  /\ link_state = NewRouterLinkState
  /\ next_routing_id =
       [l \in {LinkName("N1", "N2"), LinkName("N2", "N3"),
               LinkName("N3", "N1")} |->
          IF l = LinkName("N3", "N1") THEN 0 ELSE 1]
  /\ sent = [side \in Portals |-> << >>]
  /\ received = [side \in Portals |-> << >>]
  /\ arrived = {}
  /\ num_arrived = 0
  /\ dropped = {}

\* The router the portal of `side` is attached to, or NoRouter while
\* portal B is in transit.
EndpointOf(side) ==
  IF side = "A" THEN "R"
  ELSE IF routers["P"].mode = "Active" THEN "P"
  ELSE IF routers["S"].mode = "Active" THEN "S"
  ELSE NoRouter

NumRoutePuts == Len(sent["A"]) + Len(sent["B"])

RECURSIVE Transmit(_, _, _)
\* NodeLink::Transmit for each of `sends` in order, from node `from`.
Transmit(tr, from, sends) ==
  IF sends = << >> THEN tr
  ELSE Transmit([tr EXCEPT ![<<from, Head(sends).to>>] =
                   Append(@, Head(sends).msg)],
                from, Tail(sends))

\* The routes_ of every NodeLink after `node` has removed the routes of the
\* links in `removes`.
RemoveRoutes(rs, node, removes) ==
  [l \in NodeLinks |->
     IF l[1] = node /\ \E k \in removes : k.valid /\ k.remote = l[2]
     THEN RemoveRoute(rs[l],
            (CHOOSE k \in removes : k.valid /\ k.remote = l[2]).routing_id)
     ELSE rs[l]]

\* The state after router `name` has taken a step with effect e on a
\* transport state tr and routes rs.
Apply(name, e, tr, rs) ==
  /\ routers' = [routers EXCEPT ![name] = e.router]
  /\ transport' = Transmit(tr, NodeOf(name), e.sends)
  /\ routes' = RemoveRoutes(rs, NodeOf(name), e.removes)

\* Put on the portal of `side`: Router::SendOutgoingParcel.
RoutePut(side) ==
  LET name == EndpointOf(side) IN
  /\ name # NoRouter
  /\ NumRoutePuts < MaxRoutePuts
  /\ LET data == NumRoutePuts + 1
         parcel == Element(routers[name].outbound_sequence_length, data)
     IN /\ Apply(name, SendOutgoingParcel(routers[name], data),
                 transport, routes)
        /\ sent' = [sent EXCEPT ![side] = Append(@, parcel)]
  /\ UNCHANGED <<link_state, next_routing_id, received, arrived,
                 num_arrived, dropped>>

\* Get on the portal of `side` while a parcel is available.
RouteGet(side) ==
  LET name == EndpointOf(side) IN
  /\ name # NoRouter
  /\ HasNextElement(routers[name].inbound)
  /\ LET r == Pop(routers[name].inbound, DefaultElement) IN
     /\ routers' = [routers EXCEPT ![name].inbound = r.q]
     /\ received' = [received EXCEPT ![side] = Append(@, r.element)]
  /\ UNCHANGED <<routes, transport, link_state, next_routing_id, sent,
                 arrived, num_arrived, dropped>>

\* Portal B is put into a parcel sent from N2 to N3: P locks its link to R
\* for a bypass by N3, serializes itself into the parcel's descriptor and
\* begins proxying to the router the descriptor names.
MovePortal ==
  LET p == routers["P"]
      new_routing_id == next_routing_id[LinkName("N2", "N3")]
      lock == TryLockForBypass(link_state, "B", "N3")
      descriptor ==
        PortalDescriptor(new_routing_id,
                         current_sequence_number(p.inbound),
                         p.outbound_sequence_length,
                         p.outward_link.remote, p.outward_link.routing_id,
                         BypassKey)
      proxy == [p EXCEPT !.mode = "Proxy",
                         !.inward_link = Link("N3", new_routing_id)]
  IN
  /\ p.mode = "Active"
  /\ routers["S"].mode = "None"
  /\ new_routing_id \in RoutingIds
  /\ lock.ok
  /\ link_state' = lock.state
  /\ next_routing_id' =
       [next_routing_id EXCEPT ![LinkName("N2", "N3")] = @ + 1]
  /\ Apply("P", FlushProxy(proxy),
           Transmit(transport, "N2",
                    <<[to |-> "N3",
                       msg |-> AcceptParcelWithPortal(CarrierRoutingId,
                                                      descriptor)]>>),
           [routes EXCEPT ![<<"N2", "N3">>] =
              AddRoute(@, new_routing_id, "P")])
  /\ UNCHANGED <<sent, received, arrived, num_arrived, dropped>>

\* NodeLink::OnAcceptParcel on N3 for the parcel that carries portal B: the
\* router S is deserialized, bound to the descriptor's routing id and given
\* the link to its predecessor as outward link; the descriptor names the
\* peer of the proxy, so S is asked to initiate the bypass.
OnAcceptParcel_NewRouter ==
  LET tr == transport[<<"N2", "N3">>]
      d == Head(tr).descriptor
      s == NewRouter("Active", d.next_incoming_sequence_number,
                     d.next_outgoing_sequence_number,
                     Link("N2", d.new_routing_id))
  IN
  /\ tr # << >>
  /\ Head(tr).type = "AcceptParcel"
  /\ d.valid
  /\ routers' = [routers EXCEPT !["S"] =
       [s EXCEPT !.bypass = "requested", !.descriptor = d]]
  /\ routes' = [routes EXCEPT ![<<"N3", "N2">>] =
       AddRoute(@, d.new_routing_id, "S")]
  /\ transport' = [transport EXCEPT ![<<"N2", "N3">>] = Tail(@)]
  /\ UNCHANGED <<link_state, next_routing_id, sent, received, arrived,
                 num_arrived, dropped>>

\* NodeLink::OnAcceptParcel on node `to` for a parcel without portals
\* received from node `from`: the parcel goes to the router bound to its
\* routing id and is dropped when there is none.
OnAcceptParcel(from, to) ==
  LET tr == transport[<<from, to>>]
      accept == Head(tr)
      parcel == ParcelOf(accept)
      receiver == GetRouter(routes[<<to, from>>], accept.routing_id)
      rest == [transport EXCEPT ![<<from, to>>] = Tail(@)]
  IN
  /\ tr # << >>
  /\ accept.type = "AcceptParcel"
  /\ ~accept.descriptor.valid
  /\ IF receiver = NoRouter
     THEN /\ dropped' = dropped \cup {parcel}
          /\ transport' = rest
          /\ UNCHANGED <<routers, routes, arrived, num_arrived>>
     ELSE /\ Apply(receiver,
                   AcceptParcelFrom(routers[receiver], from,
                                    accept.routing_id, parcel),
                   rest, routes)
          /\ arrived' = IF receiver = "R"
                        THEN arrived \cup {[parcel |-> parcel, via |-> from]}
                        ELSE arrived
          /\ num_arrived' = IF receiver = "R" THEN num_arrived + 1
                            ELSE num_arrived
          /\ UNCHANGED dropped
  /\ UNCHANGED <<link_state, next_routing_id, sent, received>>

\* NodeLink::BypassProxy giving S its new outward link without pausing its
\* outbound transmission first.
BypassProxy_SetOutwardLink_NotPaused ==
  LET s == routers["S"]
      d == s.descriptor
      new_routing_id == next_routing_id[LinkName("N3", d.proxy_peer_node_name)]
      set == SetOutwardLink(s, Link(d.proxy_peer_node_name, new_routing_id))
  IN
  /\ s.bypass = "requested"
  /\ new_routing_id \in RoutingIds
  /\ next_routing_id' =
       [next_routing_id EXCEPT
          ![LinkName("N3", d.proxy_peer_node_name)] = @ + 1]
  /\ routes' = [routes EXCEPT ![<<"N3", d.proxy_peer_node_name>>] =
       AddRoute(@, new_routing_id, "S")]
  /\ routers' = [routers EXCEPT !["S"] =
       [set.router EXCEPT
          !.bypass = "linked",
          !.bypass_message =
             BypassProxyMessage("N2", d.proxy_peer_routing_id,
                                new_routing_id, d.bypass_key,
                                set.sequence_length)]]
  /\ UNCHANGED <<transport, link_state, sent, received, arrived,
                 num_arrived, dropped>>

\* NodeLink::BypassProxy up to the return of SetOutwardLink: a routing id
\* is allocated on the NodeLink to the proxy's peer and bound to S, S's
\* outbound transmission is paused, and the new link replaces S's outward
\* link.
BypassProxy_SetOutwardLink ==
  LET s == routers["S"]
      d == s.descriptor
      new_routing_id == next_routing_id[LinkName("N3", d.proxy_peer_node_name)]
      set == SetOutwardLink([s EXCEPT !.paused = @ + 1],
                            Link(d.proxy_peer_node_name, new_routing_id))
  IN
  /\ s.bypass = "requested"
  /\ new_routing_id \in RoutingIds
  /\ next_routing_id' =
       [next_routing_id EXCEPT
          ![LinkName("N3", d.proxy_peer_node_name)] = @ + 1]
  /\ routes' = [routes EXCEPT ![<<"N3", d.proxy_peer_node_name>>] =
       AddRoute(@, new_routing_id, "S")]
  /\ routers' = [routers EXCEPT !["S"] =
       [set.router EXCEPT
          !.bypass = "linked",
          !.bypass_message =
             BypassProxyMessage("N2", d.proxy_peer_routing_id,
                                new_routing_id, d.bypass_key,
                                set.sequence_length)]]
  /\ UNCHANGED <<transport, link_state, sent, received, arrived,
                 num_arrived, dropped>>

\* NodeLink::BypassProxy: Transmit(bypass).
BypassProxy_Transmit ==
  LET s == routers["S"] IN
  /\ s.bypass = "linked"
  /\ transport' = Transmit(transport, "N3",
       <<[to |-> s.outward_link.remote, msg |-> s.bypass_message]>>)
  /\ routers' = [routers EXCEPT !["S"].bypass = "transmitted"]
  /\ UNCHANGED <<routes, link_state, next_routing_id, sent, received,
                 arrived, num_arrived, dropped>>

\* NodeLink::BypassProxy: PauseOutboundTransmission(false), which flushes
\* the parcels queued meanwhile.
BypassProxy_Unpause ==
  LET s == routers["S"] IN
  /\ s.bypass = "transmitted"
  /\ Apply("S", FlushOutbound([s EXCEPT !.paused = @ - 1, !.bypass = "done"]),
           transport, routes)
  /\ UNCHANGED <<link_state, next_routing_id, sent, received, arrived,
                 num_arrived, dropped>>

\* msg::BypassProxy received on N1 from node `from`: the router whose link
\* to the named proxy is locked for a bypass by `from` takes the new
\* routing id as its outward link, tells the proxy to stop and expects the
\* parcels below the proxied length on the link it leaves.
OnBypassProxy(from) ==
  LET tr == transport[<<from, "N1">>]
      bypass == Head(tr)
      rest == [transport EXCEPT ![<<from, "N1">>] = Tail(@)]
      name == GetRouter(routes[<<"N1", bypass.proxy_name>>],
                        bypass.proxy_routing_id)
      r == routers[name]
      set == SetOutwardLink(r, Link(from, bypass.new_routing_id))
      expecting ==
        [set.router EXCEPT !.length_from_decaying_link =
           SomeLength(bypass.proxied_outbound_sequence_length)]
      flushed == FlushOutbound(expecting)
      stop == [to |-> r.outward_link.remote,
               msg |-> StopProxyingMessage(
                         r.outward_link.routing_id,
                         current_sequence_number(r.outbound),
                         bypass.proxied_outbound_sequence_length)]
  IN
  /\ tr # << >>
  /\ bypass.type = "BypassProxy"
  /\ IF /\ name # NoRouter
        /\ r.outward_link = Link(bypass.proxy_name, bypass.proxy_routing_id)
        /\ CanNodeRequestBypass(link_state, "A", from)
        /\ bypass.bypass_key = BypassKey
     THEN Apply(name,
                DropDecayingLink(
                  Effect(flushed.router, <<stop>> \o flushed.sends, {})),
                rest,
                [routes EXCEPT ![<<"N1", from>>] =
                   AddRoute(@, bypass.new_routing_id, name)])
     ELSE /\ transport' = rest
          /\ UNCHANGED <<routers, routes>>
  /\ UNCHANGED <<link_state, next_routing_id, sent, received, arrived,
                 num_arrived, dropped>>

\* A msg::BypassProxy that node `from` transmits to N1 on its own account:
\* it names the proxy P on N2 and the routing id of R's link to it, and
\* carries a key and a routing id of the sender's choosing.
TransmitBypassProxy(from, bypass_key, new_routing_id) ==
  LET tr == transport[<<from, "N1">>] IN
  /\ \A i \in 1..Len(tr) : tr[i].type # "BypassProxy"
  /\ transport' = [transport EXCEPT ![<<from, "N1">>] =
       Append(@, BypassProxyMessage("N2", 0, new_routing_id, bypass_key, 0))]
  /\ UNCHANGED <<routers, routes, link_state, next_routing_id, sent,
                 received, arrived, num_arrived, dropped>>

\* NodeLink::OnStopProxying calling Router::StopProxying without the
\* lengths the message names.
OnStopProxying_DropsLengths ==
  LET tr == transport[<<"N1", "N2">>]
      stop == Head(tr)
      rest == [transport EXCEPT ![<<"N1", "N2">>] = Tail(@)]
      router == GetRouter(routes[<<"N2", "N1">>], stop.routing_id)
  IN
  /\ tr # << >>
  /\ stop.type = "StopProxying"
  /\ IF router = NoRouter
     THEN /\ transport' = rest
          /\ UNCHANGED <<routers, routes>>
     ELSE Apply(router, StopProxying(routers[router], 0, 0), rest, routes)
  /\ UNCHANGED <<link_state, next_routing_id, sent, received, arrived,
                 num_arrived, dropped>>

\* NodeLink::OnStopProxying on N2 for a message from N1.
OnStopProxying ==
  LET tr == transport[<<"N1", "N2">>]
      stop == Head(tr)
      rest == [transport EXCEPT ![<<"N1", "N2">>] = Tail(@)]
      router == GetRouter(routes[<<"N2", "N1">>], stop.routing_id)
  IN
  /\ tr # << >>
  /\ stop.type = "StopProxying"
  /\ IF router = NoRouter
     THEN /\ transport' = rest
          /\ UNCHANGED <<routers, routes>>
     ELSE Apply(router,
                StopProxying(routers[router], stop.inbound_sequence_length,
                             stop.outbound_sequence_length),
                rest, routes)
  /\ UNCHANGED <<link_state, next_routing_id, sent, received, arrived,
                 num_arrived, dropped>>

\* msg::ProxyWillStop received on N3 from N2: the router learns how many
\* parcels its decaying link will still deliver.
OnProxyWillStop ==
  LET tr == transport[<<"N2", "N3">>]
      will_stop == Head(tr)
      rest == [transport EXCEPT ![<<"N2", "N3">>] = Tail(@)]
      router == GetRouter(routes[<<"N3", "N2">>], will_stop.routing_id)
  IN
  /\ tr # << >>
  /\ will_stop.type = "ProxyWillStop"
  /\ IF router = NoRouter
     THEN /\ transport' = rest
          /\ UNCHANGED <<routers, routes>>
     ELSE Apply(router,
                DropDecayingLink(
                  Effect([routers[router] EXCEPT
                            !.length_from_decaying_link =
                               SomeLength(will_stop.sequence_length)],
                         << >>, {})),
                rest, routes)
  /\ UNCHANGED <<link_state, next_routing_id, sent, received, arrived,
                 num_arrived, dropped>>

(* ---------------------------------------------------------------------- *)
(* Threads that put, get, arm and destroy on a pair of portals with a     *)
(* trap each, as in src/src/api/integration_tests/trap_test.cc.            *)
(* ---------------------------------------------------------------------- *)

Threads == {"T1", "T2"}

DestroyTrapFlags == {IPCZ_NO_FLAGS, IPCZ_DESTROY_TRAP_BLOCKING}

\* No thread holds the mutex.
Unlocked == "none"

\* A deferred event of the trap on `portal` in a thread's dispatcher:
\* "deferred" until MaybeDispatchEvent runs, "dispatching" once the trap
\* has counted the dispatch, "handler" while the handler runs.
Frame(portal, pc, event) == [portal |-> portal, pc |-> pc, event |-> event]

\* The thread is not inside a call of the API: it runs application code,
\* at top level or inside a handler.
CanCall(t) ==
  IF dispatch_stack[t] = << >>
  THEN TRUE
  ELSE Head(dispatch_stack[t]).pc = "handler"

\* The thread runs the handler of the trap on portal p.
InHandler(t, p) ==
  \E i \in 1..Len(dispatch_stack[t]) :
    /\ dispatch_stack[t][i].portal = p
    /\ dispatch_stack[t][i].pc = "handler"

\* The events UpdatePortalStatus deferred, as frames of the dispatcher.
DeferredFrames(p, deferred) ==
  IF deferred = << >>
  THEN << >>
  ELSE <<Frame(p, "deferred", Head(deferred))>>

NoTrapCall ==
  [op |-> "none", thread |-> "none", portal |-> "none", flags |-> "none",
   result |-> "none",
   satisfied_condition_flags |-> NotWritten, status |-> NotWritten]

\* CreateTrap on each portal of a fresh pair, watching for the given numbers
\* of local parcels.
TrapInitWith(min_local_parcels) ==
  /\ trap = [p \in Portals |->
               NewTrap(LocalParcelsConditions(min_local_parcels[p]))]
  /\ router_status = [p \in Portals |-> NewPortalStatus]
  /\ dispatch_stack = [t \in Threads |-> << >>]
  /\ trap_mutex = [p \in Portals |-> Unlocked]
  /\ num_armed = [p \in Portals |-> 0]
  /\ num_invoked = [p \in Portals |-> 0]
  /\ destroyed = [p \in Portals |-> "none"]
  /\ num_trap_puts = 0
  /\ tcall = NoTrapCall

TrapInit ==
  \E min_local_parcels \in [Portals -> 1..MaxMinLocalParcels] :
    TrapInitWith(min_local_parcels)

\* The traps of a specification that makes no call on them.
TrapIdle ==
  /\ trap = NotConstructed
  /\ router_status = NotConstructed
  /\ dispatch_stack = NotConstructed
  /\ trap_mutex = NotConstructed
  /\ num_armed = NotConstructed
  /\ num_invoked = NotConstructed
  /\ destroyed = NotConstructed
  /\ num_trap_puts = NotConstructed
  /\ tcall = NotConstructed

\* Put(p, ...) by thread t: the parcel is queued on the peer's router under
\* that router's mutex, its status changes and its traps are notified; the
\* events deferred are left to the thread's dispatcher.
TrapPut(t, p) ==
  LET q == Peer(p)
      status == [router_status[q] EXCEPT !.num_local_parcels = @ + 1]
      updated == UpdatePortalStatus(trap[q], status)
  IN
  /\ CanCall(t)
  /\ num_trap_puts < MaxTrapPuts
  /\ trap_mutex[q] = Unlocked
  /\ num_trap_puts' = num_trap_puts + 1
  /\ router_status' = [router_status EXCEPT ![q] = status]
  /\ trap' = [trap EXCEPT ![q] = updated.trap]
  /\ dispatch_stack' =
       [dispatch_stack EXCEPT
          ![t] = DeferredFrames(q, updated.deferred) \o @]
  /\ UNCHANGED <<trap_mutex, num_armed, num_invoked, destroyed, tcall>>

\* Get(p, ...) by thread t: the next parcel leaves the router's queue under
\* the router's mutex, its status changes and its traps are notified.
TrapGet(t, p) ==
  LET status == [router_status[p] EXCEPT !.num_local_parcels = @ - 1]
      updated == UpdatePortalStatus(trap[p], status)
  IN
  /\ CanCall(t)
  /\ router_status[p].num_local_parcels > 0
  /\ trap_mutex[p] = Unlocked
  /\ router_status' = [router_status EXCEPT ![p] = status]
  /\ trap' = [trap EXCEPT ![p] = updated.trap]
  /\ dispatch_stack' =
       [dispatch_stack EXCEPT
          ![t] = DeferredFrames(p, updated.deferred) \o @]
  /\ UNCHANGED <<trap_mutex, num_armed, num_invoked, destroyed,
                 num_trap_puts, tcall>>

\* ArmTrap(p, trap, &flags, &status) by thread t.
DoArmTrap(t, p) ==
  LET armed == Arm(trap[p], router_status[p]) IN
  /\ CanCall(t)
  /\ destroyed[p] = "none"
  /\ trap_mutex[p] = Unlocked
  /\ trap' = [trap EXCEPT ![p] = armed.trap]
  /\ num_armed' = [num_armed EXCEPT
                     ![p] = IF armed.result = "OK" THEN @ + 1 ELSE @]
  /\ tcall' = [op |-> "ArmTrap", thread |-> t, portal |-> p,
               flags |-> IPCZ_NO_FLAGS, result |-> armed.result,
               satisfied_condition_flags |->
                 armed.satisfied_condition_flags,
               status |-> armed.status]
  /\ UNCHANGED <<router_status, dispatch_stack, trap_mutex, num_invoked,
                 destroyed, num_trap_puts>>

\* DestroyTrap(p, trap, flags) by thread t, from the call to its return.
DoDestroyTrap(t, p, flags) ==
  LET disabled == DestroyTrap(trap[p], flags) IN
  /\ CanCall(t)
  /\ destroyed[p] = "none"
  /\ trap_mutex[p] = Unlocked
  /\ disabled.proceeds
  /\ trap' = [trap EXCEPT ![p] = disabled.trap]
  /\ destroyed' = [destroyed EXCEPT ![p] = flags]
  /\ tcall' = [op |-> "DestroyTrap", thread |-> t, portal |-> p,
               flags |-> flags, result |-> "OK",
               satisfied_condition_flags |-> NotWritten,
               status |-> NotWritten]
  /\ UNCHANGED <<router_status, dispatch_stack, trap_mutex, num_armed,
                 num_invoked, num_trap_puts>>

\* Thread t calls Trap::Disable(flags) on the trap of portal p, at top level
\* or from a handler, and reaches the MutexLock that awaits the condition.
Disable_Call(t, p, flags) ==
  /\ CanCall(t)
  /\ destroyed[p] = "none"
  /\ destroyed' = [destroyed EXCEPT ![p] = flags]
  /\ dispatch_stack' =
       [dispatch_stack EXCEPT
          ![t] = <<Frame(p, "Disable", TrapEvent({}, router_status[p]))>> \o @]
  /\ tcall' = [op |-> "Disable", thread |-> t, portal |-> p,
               flags |-> flags, result |-> "none",
               satisfied_condition_flags |-> NotWritten,
               status |-> NotWritten]
  /\ UNCHANGED <<trap, router_status, trap_mutex, num_armed, num_invoked,
                 num_trap_puts>>

\* Thread t waits in Trap::Disable for the trap of portal p.
InDisable(t, p) ==
  /\ dispatch_stack[t] # << >>
  /\ Head(dispatch_stack[t]).pc = "Disable"
  /\ Head(dispatch_stack[t]).portal = p

\* The MutexLock of Trap::Disable can be acquired: mutex_ is free and the
\* condition of the call holds.
Disable_CanAcquire(t, p) ==
  /\ InDisable(t, p)
  /\ trap_mutex[p] = Unlocked
  /\ Disable(trap[p], destroyed[p]).proceeds

\* Trap::Disable acquires mutex_ under its condition, clears is_enabled_ and
\* returns.
Disable_Return(t) ==
  /\ \E p \in Portals :
       /\ Disable_CanAcquire(t, p)
       /\ trap' = [trap EXCEPT ![p] = Disable(trap[p], destroyed[p]).trap]
       /\ tcall' = [op |-> "Disable", thread |-> t, portal |-> p,
                    flags |-> destroyed[p], result |-> "OK",
                    satisfied_condition_flags |-> NotWritten,
                    status |-> NotWritten]
  /\ dispatch_stack' = [dispatch_stack EXCEPT ![t] = Tail(@)]
  /\ UNCHANGED <<router_status, trap_mutex, num_armed, num_invoked,
                 destroyed, num_trap_puts>>

\* The dispatcher of thread t runs MaybeDispatchEvent for its innermost
\* deferred event, up to the end of the first locked block.
DispatchBegin(t) ==
  /\ dispatch_stack[t] # << >>
  /\ Head(dispatch_stack[t]).pc = "deferred"
  /\ LET frame == Head(dispatch_stack[t])
         p == frame.portal
         begun == MaybeDispatchEvent_Begin(trap[p])
     IN
     /\ trap_mutex[p] = Unlocked
     /\ trap' = [trap EXCEPT ![p] = begun.trap]
     /\ trap_mutex' = [trap_mutex EXCEPT
                         ![p] = IF begun.locked THEN t ELSE Unlocked]
     /\ dispatch_stack' =
          [dispatch_stack EXCEPT
             ![t] = IF begun.dispatches
                    THEN <<[frame EXCEPT !.pc = "dispatching"]>> \o Tail(@)
                    ELSE Tail(@)]
  /\ UNCHANGED <<router_status, num_armed, num_invoked, destroyed,
                 num_trap_puts, tcall>>

\* MaybeDispatchEvent calls handler_(&event).
HandlerEnter(t) ==
  /\ dispatch_stack[t] # << >>
  /\ Head(dispatch_stack[t]).pc = "dispatching"
  /\ LET frame == Head(dispatch_stack[t]) IN
     /\ dispatch_stack' =
          [dispatch_stack EXCEPT
             ![t] = <<[frame EXCEPT !.pc = "handler"]>> \o Tail(@)]
     /\ num_invoked' = [num_invoked EXCEPT ![frame.portal] = @ + 1]
  /\ UNCHANGED <<trap, router_status, trap_mutex, num_armed, destroyed,
                 num_trap_puts, tcall>>

\* The handler returns and MaybeDispatchEvent takes mutex_ again to count
\* the dispatch as over.
HandlerReturn(t) ==
  /\ dispatch_stack[t] # << >>
  /\ Head(dispatch_stack[t]).pc = "handler"
  /\ LET p == Head(dispatch_stack[t]).portal IN
     /\ trap_mutex[p] = Unlocked
     /\ trap' = [trap EXCEPT ![p] = MaybeDispatchEvent_End(@)]
  /\ dispatch_stack' = [dispatch_stack EXCEPT ![t] = Tail(@)]
  /\ UNCHANGED <<router_status, trap_mutex, num_armed, num_invoked,
                 destroyed, num_trap_puts, tcall>>

(* ---------------------------------------------------------------------- *)
(* Producers and consumers of one MpmcQueue, each step one atomic          *)
(* operation, as in src/src/mem/mpmc_queue_test.cc.                        *)
(* ---------------------------------------------------------------------- *)

Producers == {"P1", "P2"}
Consumers == {"C1", "C2"}

Idle == [pc |-> "idle", index |-> 0, attempts |-> 0, value |-> 0]

MpmcInit ==
  /\ cells = [i \in 0..(kCapacity - 1) |-> NewCell]
  /\ head_ = 0
  /\ tail_ = 0
  /\ mq_thread = [t \in Producers \cup Consumers |-> Idle]
  /\ next_value = 1
  /\ pushed_ok = {}
  /\ popped_ok = [v \in 0..MaxValues |-> 0]

\* The call of thread t returns false.
ReturnFalse(t) == mq_thread' = [mq_thread EXCEPT ![t] = Idle]

\* The end of one iteration that did not claim the cell: ++attempts, and
\* the call returns false once kMaxRetries attempts were made.
NextAttempt(t, index) ==
  IF mq_thread[t].attempts + 1 < kMaxRetries
  THEN mq_thread' = [mq_thread EXCEPT ![t].attempts = @ + 1,
                                      ![t].index = index]
  ELSE ReturnFalse(t)

\* PushBack(value): tail_.load.
PushBack_Load(t) ==
  /\ mq_thread[t].pc = "idle"
  /\ next_value <= MaxValues
  /\ next_value' = next_value + 1
  /\ mq_thread' = [mq_thread EXCEPT
                     ![t] = [pc |-> "cas", index |-> tail_, attempts |-> 0,
                             value |-> next_value]]
  /\ UNCHANGED <<cells, head_, tail_, pushed_ok, popped_ok>>

\* PushBack: c.status.compare_exchange_weak, which may fail spuriously, and
\* what follows its failure.
PushBack_Claim(t) ==
  LET tail == mq_thread[t].index
      c == CellOf(tail)
      status == cells[c].status
  IN
  /\ mq_thread[t].pc = "cas"
  /\ t \in Producers
  /\ \/ /\ PushBackClaims(status, tail)
        /\ cells' = [cells EXCEPT ![c].status = EmptyStatus(tail) + kBusyBit]
        /\ mq_thread' = [mq_thread EXCEPT ![t].pc = "copy"]
     \/ /\ PushBackClaims(status, tail)
        /\ NextAttempt(t, tail)
        /\ UNCHANGED cells
     \/ /\ ~PushBackClaims(status, tail)
        /\ IF PushBackFindsFull(status, tail)
           THEN ReturnFalse(t)
           ELSE mq_thread' = [mq_thread EXCEPT ![t].pc = "reload"]
        /\ UNCHANGED cells
  /\ UNCHANGED <<head_, tail_, next_value, pushed_ok, popped_ok>>

\* PushBack: tail = tail_.load after a lost race, and the next iteration.
PushBack_Reload(t) ==
  /\ mq_thread[t].pc = "reload"
  /\ t \in Producers
  /\ IF mq_thread[t].attempts + 1 < kMaxRetries
     THEN mq_thread' = [mq_thread EXCEPT ![t].attempts = @ + 1,
                                         ![t].index = tail_,
                                         ![t].pc = "cas"]
     ELSE ReturnFalse(t)
  /\ UNCHANGED <<cells, head_, tail_, next_value, pushed_ok, popped_ok>>

\* PushBack: AtomicWriteMemcpy(&c.data, &value, sizeof(c.data)).
PushBack_Copy(t) ==
  /\ mq_thread[t].pc = "copy"
  /\ t \in Producers
  /\ cells' = [cells EXCEPT
                 ![CellOf(mq_thread[t].index)].data = mq_thread[t].value]
  /\ mq_thread' = [mq_thread EXCEPT ![t].pc = "advance"]
  /\ UNCHANGED <<head_, tail_, next_value, pushed_ok, popped_ok>>

\* PushBack: tail_.compare_exchange_strong(tail, tail + 1).
PushBack_Advance(t) ==
  /\ mq_thread[t].pc = "advance"
  /\ t \in Producers
  /\ tail_' = IF tail_ = mq_thread[t].index THEN tail_ + 1 ELSE tail_
  /\ mq_thread' = [mq_thread EXCEPT ![t].pc = "publish"]
  /\ UNCHANGED <<cells, head_, next_value, pushed_ok, popped_ok>>

\* PushBack: c.status.store(empty_status | kFullBit); return true.
PushBack_Publish(t) ==
  /\ mq_thread[t].pc = "publish"
  /\ t \in Producers
  /\ cells' = [cells EXCEPT
                 ![CellOf(mq_thread[t].index)].status =
                   EmptyStatus(mq_thread[t].index) + kFullBit]
  /\ pushed_ok' = pushed_ok \cup {mq_thread[t].value}
  /\ mq_thread' = [mq_thread EXCEPT ![t] = Idle]
  /\ UNCHANGED <<head_, tail_, next_value, popped_ok>>

\* PopFront(value): head_.load.
PopFront_Load(t) ==
  /\ mq_thread[t].pc = "idle"
  /\ t \in Consumers
  /\ mq_thread' = [mq_thread EXCEPT
                     ![t] = [pc |-> "cas", index |-> head_, attempts |-> 0,
                             value |-> 0]]
  /\ UNCHANGED <<cells, head_, tail_, next_value, pushed_ok, popped_ok>>

\* PopFront: c.status.compare_exchange_weak, which may fail spuriously, and
\* what follows its failure.
PopFront_Claim(t) ==
  LET head == mq_thread[t].index
      c == CellOf(head)
      status == cells[c].status
  IN
  /\ mq_thread[t].pc = "cas"
  /\ t \in Consumers
  /\ \/ /\ PopFrontClaims(status, head)
        /\ cells' = [cells EXCEPT ![c].status = FullStatus(head) + kBusyBit]
        /\ mq_thread' = [mq_thread EXCEPT ![t].pc = "copy"]
     \/ /\ PopFrontClaims(status, head)
        /\ NextAttempt(t, head)
        /\ UNCHANGED cells
     \/ /\ ~PopFrontClaims(status, head)
        /\ IF PopFrontFindsEmpty(status, head)
           THEN ReturnFalse(t)
           ELSE mq_thread' = [mq_thread EXCEPT ![t].pc = "reload"]
        /\ UNCHANGED cells
  /\ UNCHANGED <<head_, tail_, next_value, pushed_ok, popped_ok>>

\* PopFront: head = head_.load after a lost race, and the next iteration.
PopFront_Reload(t) ==
  /\ mq_thread[t].pc = "reload"
  /\ t \in Consumers
  /\ IF mq_thread[t].attempts + 1 < kMaxRetries
     THEN mq_thread' = [mq_thread EXCEPT ![t].attempts = @ + 1,
                                         ![t].index = head_,
                                         ![t].pc = "cas"]
     ELSE ReturnFalse(t)
  /\ UNCHANGED <<cells, head_, tail_, next_value, pushed_ok, popped_ok>>

\* PopFront: AtomicReadMemcpy(&value, &c.data, sizeof(value)).
PopFront_Copy(t) ==
  /\ mq_thread[t].pc = "copy"
  /\ t \in Consumers
  /\ mq_thread' = [mq_thread EXCEPT
                     ![t].value = cells[CellOf(mq_thread[t].index)].data,
                     ![t].pc = "advance"]
  /\ UNCHANGED <<cells, head_, tail_, next_value, pushed_ok, popped_ok>>

\* PopFront: head_.compare_exchange_strong(head, head + 1).
PopFront_Advance(t) ==
  /\ mq_thread[t].pc = "advance"
  /\ t \in Consumers
  /\ head_' = IF head_ = mq_thread[t].index THEN head_ + 1 ELSE head_
  /\ mq_thread' = [mq_thread EXCEPT ![t].pc = "publish"]
  /\ UNCHANGED <<cells, tail_, next_value, pushed_ok, popped_ok>>

\* PopFront: c.status.store((head_lap + 1) << 2); return true.
PopFront_Publish(t) ==
  /\ mq_thread[t].pc = "publish"
  /\ t \in Consumers
  /\ cells' = [cells EXCEPT
                 ![CellOf(mq_thread[t].index)].status =
                   LapStatus(LapOf(mq_thread[t].index) + 1)]
  /\ popped_ok' = [popped_ok EXCEPT ![mq_thread[t].value] = @ + 1]
  /\ mq_thread' = [mq_thread EXCEPT ![t] = Idle]
  /\ UNCHANGED <<head_, tail_, next_value, pushed_ok>>

(* ---------------------------------------------------------------------- *)
(* Put with attached portals and limits on the portals of one node.        *)
(* ---------------------------------------------------------------------- *)

\* The portals Put is called on.
Senders == {"A", "E"}

\* The portal handles a Put attaches: none, one, or C followed by another.
AttachedHandles ==
  {<< >>} \cup {<<h>> : h \in PutHandles}
    \cup {<<"C", h>> : h \in PutHandles \ {"C"}}

\* The limits a Put is given: none, a limit on parcels or a limit on bytes.
LimitChoices ==
  {NoPutLimits}
    \cup {PutLimits(n, 0) : n \in 0..MaxPutLimit}
    \cup {PutLimits(0, b) : b \in 1..MaxPutLimit}

PutInit ==
  /\ incoming = [r \in Receivers |-> << >>]
  /\ next_outgoing = [p \in Senders |-> 0]
  /\ in_transit = {}
  /\ closed = {}
  /\ put_call = [op |-> "none", sender |-> "none", handles |-> << >>,
                 result |-> "none"]

\* Put(sender, data, handles, limits): Portal::Put, and when it gets that
\* far Router::SendOutgoingParcel, which gives the parcel the next sequence
\* number and passes it with its portals to the outward link, whose target
\* queues it.
DoPortalPut(sender, data_size, handles, limits) ==
  LET target == OutwardLink(sender).target
      early == PortalPut(sender, data_size, handles, limits,
                         incoming[target], target \in closed)
  IN
  /\ sender \notin in_transit
  /\ \A i \in 1..Len(handles) : handles[i] \notin in_transit
  /\ next_outgoing["A"] + next_outgoing["E"] < MaxLimitPuts
  /\ put_call' = [op |-> "Put", sender |-> sender, handles |-> handles,
                  result |-> IF early = "send" THEN "OK" ELSE early]
  /\ IF early = "send"
     THEN /\ incoming' = [incoming EXCEPT ![target] = Append(@, data_size)]
          /\ next_outgoing' = [next_outgoing EXCEPT ![sender] = @ + 1]
          /\ in_transit' =
               in_transit \cup {handles[i] : i \in 1..Len(handles)}
     ELSE UNCHANGED <<incoming, next_outgoing, in_transit>>
  /\ UNCHANGED closed

\* BeginPut, CommitPut, AbortPut, BeginGet, CommitGet or AbortGet called on
\* portal p through the API.
DoPortalTwoPhase(p, op) ==
  /\ p \notin in_transit
  /\ p \notin closed
  /\ put_call' = [op |-> op, sender |-> p, handles |-> << >>,
                  result |-> PortalTwoPhase(op)]
  /\ UNCHANGED <<incoming, next_outgoing, in_transit, closed>>

\* Get on receiver r retrieves its next parcel.
DoPortalGet(r) ==
  /\ incoming[r] # << >>
  /\ r \notin closed
  /\ incoming' = [incoming EXCEPT ![r] = Tail(@)]
  /\ UNCHANGED <<next_outgoing, in_transit, closed, put_call>>

\* Close on receiver r: its side of the route is closed and the other side
\* comes to know.
DoPortalClose(r) ==
  /\ r \notin closed
  /\ r \notin in_transit
  /\ closed' = closed \cup {r}
  /\ UNCHANGED <<incoming, next_outgoing, in_transit, put_call>>

(* ---------------------------------------------------------------------- *)
(* Parcels that carry portals from a sender over a RemoteRouterLink to a    *)
(* receiver, which retrieves them or is closed with some still queued.     *)
(* ---------------------------------------------------------------------- *)

NotDisposed == [app |-> 0, on |-> 0, closed |-> 0]

ParcelInit ==
  carried =
    [outgoing_parcels |-> << >>,
     accept_messages |-> << >>,
     incoming_parcels |-> << >>,
     in_two_phase_get |-> FALSE,
     receiver_bound |-> TRUE,
     unattached |-> SentPortals,
     disposed |-> [p \in SentPortals \cup ReceivedPortals |-> NotDisposed]]

\* The messages one node transmits to the other: well-formed parcels and
\* closures for a bound and for an unbound routing id, a message with an
\* unknown id, and messages that fail a check on reception.
TransmittedMessages ==
  {TransportMessage(id, routing_id, TRUE, TRUE, TRUE, TRUE) :
     id \in {"AcceptParcel", "SideClosed", "StopProxying"},
     routing_id \in RoutingIds}
    \cup {TransportMessage("Unknown", 0, TRUE, TRUE, TRUE, TRUE),
          TransportMessage("AcceptParcel", 0, FALSE, TRUE, TRUE, TRUE),
          TransportMessage("AcceptParcel", 0, TRUE, FALSE, TRUE, TRUE),
          TransportMessage("AcceptParcel", 0, TRUE, TRUE, FALSE, TRUE),
          TransportMessage("AcceptParcel", 0, TRUE, TRUE, TRUE, FALSE),
          TransportMessage("SideClosed", 0, TRUE, TRUE, FALSE, TRUE),
          TransportMessage("IntroduceNode", 0, TRUE, TRUE, TRUE, TRUE)}

NothingNotified ==
  [to |-> "none", message |-> TransportMessage("none", 0, TRUE, TRUE, TRUE, TRUE),
   delivered |-> FALSE, result |-> "none", notifies_error |-> FALSE]

LinkInit ==
  node_link =
    [link_end |-> [n \in LinkNodes |-> NewNodeLink(LinkRouterOf(n))],
     wrapper |-> [n \in LinkNodes |-> TRUE],
     link_router |-> [r \in LinkRouters |->
                        [peer_closed |-> FALSE, num_parcels |-> 0,
                         stopped |-> FALSE]],
     node_shut_down |-> {},
     removed_routes |-> [n \in LinkNodes |-> {}],
     notified |-> NothingNotified]

\* Node::ShutDown() on node n: its NodeLink is deactivated, and with it the
\* transport (InProcessTransport::Deactivate drops the TransportWrapper).
NodeShutDown(n) ==
  LET d == NodeLink_Deactivate(link_end[n]) IN
  /\ n \notin node_shut_down
  /\ node_link' =
       [node_link EXCEPT
          !.node_shut_down = @ \cup {n},
          !.link_end[n] = d.link,
          !.wrapper[n] = @ /\ ~d.deactivates_transport]

\* NodeLink::RemoveRoute(routing_id) on the NodeLink of node n, for a
\* routing id that is bound.
NodeLink_RemoveRoute(n, routing_id) ==
  /\ GetRouter(link_end[n].routes, routing_id) # NoRouter
  /\ node_link' =
       [node_link EXCEPT
          !.link_end[n].routes = RemoveRoute(@, routing_id),
          !.removed_routes[n] = @ \cup {routing_id}]

\* What an accepted message does to the router bound to its routing id: a
\* parcel is queued, a closure makes the router observe peer closure, and
\* StopProxying makes it stop proxying.
AcceptedBy(router, message) ==
  CASE message.message_id = "AcceptParcel" ->
         [router EXCEPT !.num_parcels = @ + 1]
    [] message.message_id = "SideClosed" ->
         [router EXCEPT !.peer_closed = TRUE]
    [] message.message_id = "StopProxying" ->
         [router EXCEPT !.stopped = TRUE]
    [] OTHER -> router

\* Node `from` transmits `message`: InProcessTransport::Transmit hands it to
\* the TransportWrapper of the peer, if the peer has one, whose Notify runs
\* the receiver's checks and handler and, when they fail, notifies an error
\* that ends in NodeLink::OnTransportError.
TransmitAndNotify(from, message) ==
  LET to == RemoteNode(from)
      n == TransportWrapper_Notify(message)
      receiver == GetRouter(link_end[to].routes, message.routing_id)
      after_error == IF n.notifies_error
                     THEN OnTransportError(link_end[to])
                     ELSE link_end[to]
  IN
  /\ from \notin node_shut_down
  /\ \A r \in LinkRouters : link_router[r].num_parcels < MaxLinkParcels
  /\ IF wrapper[to]
     THEN node_link' =
            [node_link EXCEPT
               !.notified = [to |-> to, message |-> message,
                             delivered |-> TRUE, result |-> n.result,
                             notifies_error |-> n.notifies_error],
               !.link_end[to] = after_error,
               !.link_router =
                  IF n.result = "OK" /\ receiver # NoRouter
                  THEN [@ EXCEPT ![receiver] = AcceptedBy(@, message)]
                  ELSE @]
     ELSE node_link' =
            [node_link EXCEPT
               !.notified = [to |-> to, message |-> message,
                             delivered |-> FALSE, result |-> "none",
                             notifies_error |-> FALSE]]

\* No StopProxying message has been transmitted.
NoStopNamed == stop_named = NoStop

\* The portals, the route with its proxy, the MpmcQueue, the senders and
\* receivers of Put, the parcels that carry portals and the two linked
\* nodes of a specification that makes no call on them.
PortalIdle ==
  /\ backend = NotConstructed
  /\ route = NotConstructed
  /\ wire = NotConstructed
  /\ put_log = NotConstructed
  /\ got = NotConstructed
  /\ pcall = NotConstructed
RouteIdle ==
  /\ routers = NotConstructed
  /\ routes = NotConstructed
  /\ transport = NotConstructed
  /\ link_state = NotConstructed
  /\ next_routing_id = NotConstructed
  /\ sent = NotConstructed
  /\ received = NotConstructed
  /\ arrived = NotConstructed
  /\ num_arrived = NotConstructed
  /\ dropped = NotConstructed
  /\ NoStopNamed
MpmcIdle ==
  /\ cells = NotConstructed
  /\ head_ = NotConstructed
  /\ tail_ = NotConstructed
  /\ mq_thread = NotConstructed
  /\ next_value = NotConstructed
  /\ pushed_ok = NotConstructed
  /\ popped_ok = NotConstructed
PutIdle ==
  /\ incoming = NotConstructed
  /\ next_outgoing = NotConstructed
  /\ in_transit = NotConstructed
  /\ closed = NotConstructed
  /\ put_call = NotConstructed
ParcelIdle == carried = NotConstructed
LinkIdle == node_link = NotConstructed
IntroductionIdle == introduction = NotConstructed
BypassLockIdle == bypass_lock = NotConstructed
StableLinkIdle == stable_link = NotConstructed
DeactivationIdle == deactivation = NotConstructed
InProcessIdle == in_process = NotConstructed

\* None of the objects under concurrent calls is constructed.
ConcurrentIdle ==
  /\ IntroductionIdle /\ BypassLockIdle /\ StableLinkIdle
  /\ DeactivationIdle /\ InProcessIdle

\* The portals written to the application's array are handed to it.
HandToApplication(d, handles) ==
  [p \in DOMAIN d |->
     IF p \in Referenced(handles) THEN [d[p] EXCEPT !.app = @ + 1] ELSE d[p]]

\* The transferred portals are handed on.
HandOn(d, transferred) ==
  [p \in DOMAIN d |->
     IF p \in transferred THEN [d[p] EXCEPT !.on = @ + 1] ELSE d[p]]

\* The portals a destroyed Parcel still refers to are closed.
ClosePortals(d, closed_portals) ==
  [p \in DOMAIN d |->
     IF p \in closed_portals THEN [d[p] EXCEPT !.closed = @ + 1] ELSE d[p]]

\* The vectors of portals a Put attaches: distinct portals the application
\* still holds.
Attachable ==
  {<< >>} \cup {<<p>> : p \in unattached}
    \cup {pq \in unattached \X unattached : pq[1] # pq[2]}

\* Put with attached portals: the Parcel is built and waits for the
\* outward link.
PutWithPortals(size, portals) ==
  /\ Len(outgoing_parcels) + Len(accept_messages) + Len(incoming_parcels)
       < MaxAttachPuts
  /\ carried' =
       [carried EXCEPT
          !.outgoing_parcels = Append(@, ParcelWith(size, portals)),
          !.unattached = @ \ Referenced(portals)]

\* The sender's next Parcel is given to RemoteRouterLink::AcceptParcel and
\* destroyed on return.
TransmitNextParcel ==
  LET t == TransmitParcel(Head(outgoing_parcels)) IN
  /\ outgoing_parcels # << >>
  /\ carried' =
       [carried EXCEPT
          !.outgoing_parcels = Tail(@),
          !.accept_messages = Append(@, t.message),
          !.disposed = ClosePortals(HandOn(@, t.transferred),
                                    Parcel_Destroy(t.parcel))]

\* The sender's route is torn down with Parcels that were never given to
\* the outward link: they are destroyed.
DropOutgoingParcels ==
  /\ outgoing_parcels # << >>
  /\ carried' =
       [carried EXCEPT
          !.outgoing_parcels = << >>,
          !.disposed =
             ClosePortals(@, UNION {Parcel_Destroy(outgoing_parcels[i]) :
                                      i \in 1..Len(outgoing_parcels)})]

\* NodeLink::OnAcceptParcel: the Parcel is built; without a receiver bound
\* to the routing id it is destroyed on return, else it is queued.
OnAcceptParcelWithPortals ==
  LET parcel == ReceivedParcel(Head(accept_messages)) IN
  /\ accept_messages # << >>
  /\ IF receiver_bound
     THEN carried' =
            [carried EXCEPT !.accept_messages = Tail(@),
                            !.incoming_parcels = Append(@, parcel)]
     ELSE carried' =
            [carried EXCEPT
               !.accept_messages = Tail(@),
               !.disposed = ClosePortals(@, Parcel_Destroy(parcel))]

\* Get on the receiver
ReceiverGet(available_portal_storage) ==
  LET r == GetWithPortals(incoming_parcels, in_two_phase_get,
                          available_portal_storage)
  IN
  /\ receiver_bound
  /\ carried' =
       [carried EXCEPT
          !.incoming_parcels = r.parcels,
          !.disposed = ClosePortals(HandToApplication(@, r.handles),
                                    r.closed)]

\* BeginGet on the receiver, with `data` and `num_data_bytes` given
\* (RoutedPortalBackend::BeginGet)
ReceiverBeginGet ==
  /\ receiver_bound
  /\ ~in_two_phase_get
  /\ incoming_parcels # << >>
  /\ carried' = [carried EXCEPT !.in_two_phase_get = TRUE]

\* CommitGet on the receiver
ReceiverCommitGet(num_data_bytes_consumed, available_portal_storage) ==
  LET r == CommitGetWithPortals(incoming_parcels, in_two_phase_get,
                                num_data_bytes_consumed,
                                available_portal_storage)
  IN
  /\ receiver_bound
  /\ in_two_phase_get
  /\ carried' =
       [carried EXCEPT
          !.incoming_parcels = r.parcels,
          !.in_two_phase_get = (r.result # "OK"),
          !.disposed = ClosePortals(HandToApplication(@, r.handles),
                                    r.closed)]

\* The receiver is closed: its route is removed from routes_ and the
\* Parcels still in its incoming queue are destroyed.
CloseReceiver ==
  /\ receiver_bound
  /\ carried' =
       [carried EXCEPT
          !.receiver_bound = FALSE,
          !.incoming_parcels = << >>,
          !.in_two_phase_get = FALSE,
          !.disposed =
             ClosePortals(@, UNION {Parcel_Destroy(incoming_parcels[i]) :
                                      i \in 1..Len(incoming_parcels)})]

(* ---------------------------------------------------------------------- *)
(* A node that asks its broker for introductions: NodeLink::IntroduceNode  *)
(* and NodeLink::OnIntroduceNode (src/src/core/node_link.cc), and the Node  *)
(* on either end.                                                          *)
(* ---------------------------------------------------------------------- *)

\* names -> the callbacks of EstablishLink waiting for an introduction
pending_introductions == introduction.pending_introductions
\* the msg::RequestIntroduction transmitted to the broker and not received
to_broker == introduction.to_broker
\* the msg::IntroduceNode transmitted by the broker and not received
from_broker == introduction.from_broker
\* the last msg::IntroduceNode the node received and what became of it
introduced == introduction.introduced

\* The node named K is known to the broker, the node named U is not.
IntroducedNames == {"K", "U"}
BrokerKnows(name) == name = "K"

NoTransport == [serialized |-> FALSE, num_bytes |-> 0, num_os_handles |-> 0]

\* A transport whose Serialize gives that many bytes and handles.
SerializedTransport(num_bytes, num_os_handles) ==
  [serialized |-> TRUE, num_bytes |-> num_bytes,
   num_os_handles |-> num_os_handles]

\* The size of message data that holds a msg::IntroduceNode, that many
\* bytes and that many internal::OSHandleData.
DataSize(num_bytes, num_os_handle_data) ==
  [num_bytes |-> num_bytes, num_os_handle_data |-> num_os_handle_data]

\* a < b for two such sizes, whatever sizeof(internal::OSHandleData) is.
DataSizeLess(a, b) ==
  /\ a.num_bytes <= b.num_bytes
  /\ a.num_os_handle_data <= b.num_os_handle_data
  /\ a # b

\* NodeLink::IntroduceNode(name, transport, link_buffer_memory): the
\* message handed to Transmit.
NodeLink_IntroduceNode(name, transport_, link_buffer_memory_is_valid) ==
  LET num_memory_handles == IF link_buffer_memory_is_valid THEN 1 ELSE 0 IN
  [name |-> name,
   known |-> transport_.serialized,
   num_transport_bytes |-> transport_.num_bytes,
   num_transport_os_handles |-> transport_.num_os_handles,
   data_size |-> DataSize(transport_.num_bytes,
                          transport_.num_os_handles + num_memory_handles),
   num_handles |-> transport_.num_os_handles + num_memory_handles]

\* NodeLink::OnIntroduceNode(message) up to its call of
\* Node::OnIntroduceNode: whether the message reaches the node.
OnIntroduceNode(remote_node_type, message) ==
  LET serialized_size ==
        DataSize(message.num_transport_bytes,
                 message.num_transport_os_handles + 1) IN
  /\ remote_node_type = "kBroker"
  /\ ~DataSizeLess(message.data_size, serialized_size)
  /\ message.num_handles = message.num_transport_os_handles + 1

NothingIntroduced ==
  [delivered |-> FALSE, name |-> "K", known |-> FALSE, result |-> "OK",
   callbacks_pending |-> 0, callbacks_invoked |-> 0]

IntroductionInit ==
  introduction = [pending_introductions |-> [name \in IntroducedNames |-> 0],
                  to_broker |-> << >>,
                  from_broker |-> << >>,
                  introduced |-> NothingIntroduced]

\* Node::EstablishLink(name, callback) on a node with no link to the named
\* node: it stores the callback, and asks the broker for an introduction
\* unless one is already in flight.
EstablishLink(name) ==
  /\ pending_introductions[name] < MaxCallbacks
  /\ introduction' =
       [introduction EXCEPT
          !.pending_introductions[name] = @ + 1,
          !.to_broker = IF pending_introductions[name] = 0
                        THEN Append(@, name) ELSE @]

\* Node::OnRequestIntroduction on the broker: it introduces the named node
\* with a transport and a link buffer if it knows the node, and otherwise
\* sends the IntroduceNode that indicates failure.
OnRequestIntroduction(num_bytes, num_os_handles) ==
  LET name == Head(to_broker)
      intro == IF BrokerKnows(name)
               THEN NodeLink_IntroduceNode(
                      name, SerializedTransport(num_bytes, num_os_handles),
                      TRUE)
               ELSE NodeLink_IntroduceNode(name, NoTransport, FALSE) IN
  /\ to_broker # << >>
  /\ BrokerKnows(name) \/ (num_bytes = 0 /\ num_os_handles = 0)
  /\ introduction' = [introduction EXCEPT
                        !.to_broker = Tail(@),
                        !.from_broker = Append(@, intro)]

\* The node's NodeLink to the broker receives a msg::IntroduceNode:
\* OnTransportMessage calls OnIntroduceNode, and Node::OnIntroduceNode
\* invokes every callback pending for the name.
ReceiveIntroduceNode ==
  LET intro == Head(from_broker)
      accepted == OnIntroduceNode("kBroker", intro)
      pending == pending_introductions[intro.name] IN
  /\ from_broker # << >>
  /\ introduction' =
       [introduction EXCEPT
          !.from_broker = Tail(@),
          !.pending_introductions[intro.name] = IF accepted THEN 0 ELSE @,
          !.introduced =
             [delivered |-> TRUE, name |-> intro.name, known |-> intro.known,
              result |-> IF accepted THEN "OK" ELSE "INVALID_ARGUMENT",
              callbacks_pending |-> pending,
              callbacks_invoked |-> IF accepted THEN pending ELSE 0]]

(* ---------------------------------------------------------------------- *)
(* The RouterLinkState of one central link, with side B taking and         *)
(* releasing its lock and side A asking CanNodeRequestBypass               *)
(* (src/src/ipcz/remote_router_link.cc).                                   *)
(* ---------------------------------------------------------------------- *)

\* the shared RouterLinkState
shared_state == bypass_lock.shared_state
\* the call running on side B: "none", or "TryLockForBypass" after its
\* TryLock and before it writes the allowed source
side_b_call == bypass_lock.side_b_call
\* the source that call was given
side_b_source == bypass_lock.side_b_source
\* how the lock that is held was obtained: NotHeld, HeldForClosure or
\* HeldForBypass(source)
lock_held == bypass_lock.lock_held
\* the last CanNodeRequestBypass on side A: its argument, its result and
\* how the lock was held when it read the state
can_request == bypass_lock.can_request

BypassSources == {"N2", "N3"}

NotHeld == [for |-> "none", source |-> "none"]
HeldForClosure == [for |-> "closure", source |-> "none"]
HeldForBypass(source) == [for |-> "bypass", source |-> source]

\* RouterLinkState::TryLock(side) on a link with both sides stable
RouterLinkState_TryLock(state, side) ==
  IF state.locked_by # "none"
  THEN [ok |-> FALSE, state |-> state]
  ELSE [ok |-> TRUE, state |-> [state EXCEPT !.locked_by = side]]

\* RouterLinkState::Unlock(side)
RouterLinkState_Unlock(state, side) ==
  IF state.locked_by = side
  THEN [state EXCEPT !.locked_by = "none"]
  ELSE state

NoCanRequest ==
  [called |-> FALSE, source |-> "none", result |-> FALSE, held |-> NotHeld]

BypassLockInit ==
  bypass_lock = [shared_state |-> NewRouterLinkState,
                 side_b_call |-> "none",
                 side_b_source |-> "none",
                 lock_held |-> NotHeld,
                 can_request |-> NoCanRequest]

\* TryLockForBypass(bypass_request_source) on side B up to the return of
\* state->TryLock(side_).
TryLockForBypass_TryLock(bypass_request_source) ==
  LET locked == RouterLinkState_TryLock(shared_state, "B") IN
  /\ side_b_call = "none"
  /\ bypass_lock' =
       IF locked.ok
       THEN [bypass_lock EXCEPT
               !.shared_state = locked.state,
               !.side_b_call = "TryLockForBypass",
               !.side_b_source = bypass_request_source,
               !.lock_held = HeldForBypass(bypass_request_source)]
       ELSE bypass_lock

\* The rest of TryLockForBypass: the assignment to
\* state->allowed_bypass_request_source.
TryLockForBypass_Store ==
  /\ side_b_call = "TryLockForBypass"
  /\ bypass_lock' =
       [bypass_lock EXCEPT
          !.shared_state.allowed_bypass_request_source = side_b_source,
          !.side_b_call = "none",
          !.side_b_source = "none"]

\* RemoteRouterLink::TryLockForClosure() on side B
TryLockForClosure ==
  LET locked == RouterLinkState_TryLock(shared_state, "B") IN
  /\ side_b_call = "none"
  /\ bypass_lock' =
       IF locked.ok
       THEN [bypass_lock EXCEPT !.shared_state = locked.state,
                                !.lock_held = HeldForClosure]
       ELSE bypass_lock

\* RemoteRouterLink::Unlock() on side B, which holds the lock
Unlock ==
  /\ side_b_call = "none"
  /\ shared_state.locked_by = "B"
  /\ bypass_lock' =
       [bypass_lock EXCEPT
          !.shared_state = RouterLinkState_Unlock(@, "B"),
          !.lock_held = NotHeld]

\* RemoteRouterLink::CanNodeRequestBypass(bypass_request_source) on side A.
\* While side B is between its TryLock and its assignment the read of the
\* allowed source races with that assignment, and gives the old value or
\* the new one.
DoCanNodeRequestBypass(bypass_request_source, sees_store) ==
  LET seen == IF sees_store
              THEN [shared_state EXCEPT
                      !.allowed_bypass_request_source = side_b_source]
              ELSE shared_state IN
  /\ sees_store => side_b_call = "TryLockForBypass"
  /\ bypass_lock' =
       [bypass_lock EXCEPT
          !.can_request =
             [called |-> TRUE, source |-> bypass_request_source,
              result |-> CanNodeRequestBypass(seen, "A",
                                              bypass_request_source),
              held |-> lock_held]]

(* ---------------------------------------------------------------------- *)
(* A central RemoteRouterLink created without an addressable link state:   *)
(* SetLinkState and MarkSideStable (src/src/ipcz/remote_router_link.cc).   *)
(* ---------------------------------------------------------------------- *)

\* link_state_phase_
link_state_phase_ == stable_link.link_state_phase_
\* whether link_state_ points to the RouterLinkState
link_state_ == stable_link.link_state_
\* side_is_stable_ as the other threads read it
side_is_stable_ == stable_link.side_is_stable_
\* whether the store to side_is_stable_ has been issued by the thread in
\* MarkSideStable and is not yet visible to the other threads
stable_store_pending == stable_link.stable_store_pending
\* whether the RouterLinkState has this side marked stable
state_side_stable == stable_link.state_side_stable
\* thread -> where it is in its call
link_thread == stable_link.link_thread

\* Two threads call SetLinkState with an addressable state, one calls
\* MarkSideStable.
SetterThreads == {"S1", "S2"}
MarkerThread == "M"

StableLinkInit ==
  stable_link = [link_state_phase_ |-> "kNotPresent",
                 link_state_ |-> FALSE,
                 side_is_stable_ |-> FALSE,
                 stable_store_pending |-> FALSE,
                 state_side_stable |-> FALSE,
                 link_thread |-> [t \in SetterThreads \cup {MarkerThread} |->
                                    "not called"]]

\* SetLinkState(state): the compare_exchange_strong of link_state_phase_
\* from kNotPresent to kBusy.
SetLinkState_Busy(t) ==
  /\ link_thread[t] = "not called"
  /\ stable_link' =
       IF link_state_phase_ = "kNotPresent"
       THEN [stable_link EXCEPT !.link_state_phase_ = "kBusy",
                                !.link_thread[t] = "busy"]
       ELSE [stable_link EXCEPT !.link_thread[t] = "returned"]

\* SetLinkState: link_state_fragment_ is assigned and link_state_ is
\* exchanged from null to the state.
SetLinkState_Exchange(t) ==
  /\ link_thread[t] = "busy"
  /\ stable_link' =
       IF ~link_state_
       THEN [stable_link EXCEPT !.link_state_ = TRUE,
                                !.link_thread[t] = "exchanged"]
       ELSE [stable_link EXCEPT !.link_thread[t] = "returned"]

\* SetLinkState: the compare_exchange_strong of link_state_phase_ from
\* kBusy to kPresent.
SetLinkState_Present(t) ==
  /\ link_thread[t] = "exchanged"
  /\ stable_link' = [stable_link EXCEPT !.link_state_phase_ = "kPresent",
                                        !.link_thread[t] = "present"]

\* SetLinkState: side_is_stable_ is loaded and, if it is set,
\* MarkSideStable is called, which finds the link state.
SetLinkState_LoadStable(t) ==
  /\ link_thread[t] = "present"
  /\ stable_link' =
       IF side_is_stable_
       THEN [stable_link EXCEPT !.state_side_stable = TRUE,
                                !.link_thread[t] = "installed"]
       ELSE [stable_link EXCEPT !.link_thread[t] = "installed"]

\* MarkSideStable: side_is_stable_.store(true, memory_order_release).  The
\* next statement is a load of another object, which release and acquire
\* do not order after the store: the store is issued here and becomes
\* visible to the other threads in a step of its own.
MarkSideStable_Store ==
  /\ link_thread[MarkerThread] = "not called"
  /\ stable_link' = [stable_link EXCEPT !.stable_store_pending = TRUE,
                                        !.link_thread[MarkerThread] = "stored"]

\* The store to side_is_stable_ becomes visible.
StableStoreVisible ==
  /\ stable_store_pending
  /\ stable_link' = [stable_link EXCEPT !.stable_store_pending = FALSE,
                                        !.side_is_stable_ = TRUE]

\* MarkSideStable: GetLinkState() and, if it is not null, SetSideStable.
MarkSideStable_GetLinkState ==
  /\ link_thread[MarkerThread] = "stored"
  /\ stable_link' =
       IF link_state_
       THEN [stable_link EXCEPT !.state_side_stable = TRUE,
                                !.link_thread[MarkerThread] = "returned"]
       ELSE [stable_link EXCEPT !.link_thread[MarkerThread] = "returned"]

(* ---------------------------------------------------------------------- *)
(* One NodeLink on which threads call Deactivate and bind routes, and     *)
(* which is then destroyed (src/src/core/node_link.cc).                    *)
(* ---------------------------------------------------------------------- *)

\* the NodeLink: active_ and routes_
deactivated_link == deactivation.deactivated_link
\* how many times DriverTransport::Deactivate has been called on transport_
num_transport_deactivations == deactivation.num_transport_deactivations
\* thread -> where it is in its call of Deactivate
deactivate_call == deactivation.deactivate_call
\* thread -> the number of calls of Deactivate it has made
num_deactivate_calls == deactivation.num_deactivate_calls
\* thread -> the routing ids that were bound when its last call began
bound_before == deactivation.bound_before
\* the routing ids AddRoute has bound so far
allocated_routing_ids == deactivation.allocated_routing_ids

\* Two threads that hold a reference to the NodeLink, and the thread that
\* drops the last reference and runs ~NodeLink.
DeactivateThreads == {"T1", "T2"}
DestructorThread == "D"

DeactivationInit ==
  deactivation =
    [deactivated_link |-> NewNodeLink("R1"),
     num_transport_deactivations |-> 0,
     deactivate_call |-> [t \in DeactivateThreads \cup {DestructorThread} |->
                            "none"],
     num_deactivate_calls |-> [t \in DeactivateThreads \cup {DestructorThread}
                                 |-> 0],
     bound_before |-> [t \in DeactivateThreads \cup {DestructorThread} |-> {}],
     allocated_routing_ids |-> {0}]

\* The NodeLink has not been destroyed: ~NodeLink has not begun.
LinkAlive == num_deactivate_calls[DestructorThread] = 0

\* NodeLink::AddRoute(routing_id, ...) with a routing id from
\* AllocateRoutingIds, which gives every id once.
DoAddRoute(routing_id) ==
  /\ LinkAlive
  /\ routing_id \notin allocated_routing_ids
  /\ deactivation' =
       [deactivation EXCEPT
          !.deactivated_link.routes = AddRoute(@, routing_id, "R1"),
          !.allocated_routing_ids = @ \cup {routing_id}]

\* NodeLink::Deactivate() while it holds mutex_: routes_ is cleared, and
\* the call returns if the link is not active.
Deactivate_Locked(t) ==
  LET d == NodeLink_Deactivate(deactivated_link) IN
  /\ deactivate_call[t] \in {"none", "returned"}
  /\ num_deactivate_calls[t] < MaxDeactivateCalls
  /\ IF t = DestructorThread
     THEN /\ num_deactivate_calls[t] = 0
          /\ \A u \in DeactivateThreads : deactivate_call[u] # "unlocked"
     ELSE LinkAlive
  /\ deactivation' =
       [deactivation EXCEPT
          !.deactivated_link = d.link,
          !.bound_before[t] =
             {id \in RoutingIds :
                GetRouter(deactivated_link.routes, id) # NoRouter},
          !.num_deactivate_calls[t] = @ + 1,
          !.deactivate_call[t] =
             IF d.deactivates_transport THEN "unlocked" ELSE "returned"]

\* The rest of Deactivate(), after mutex_ is released:
\* transport_->Deactivate().
Deactivate_Transport(t) ==
  /\ deactivate_call[t] = "unlocked"
  /\ deactivation' =
       [deactivation EXCEPT
          !.num_transport_deactivations = @ + 1,
          !.deactivate_call[t] = "returned"]

(* ---------------------------------------------------------------------- *)
(* A pair of InProcessTransports: one thread transmits on the first while  *)
(* another activates the second                                            *)
(* (src/src/reference_drivers/single_process_reference_driver.cc).         *)
(* ---------------------------------------------------------------------- *)

\* saved_messages_ of the transmitting transport
saved_messages_ == in_process.saved_messages_
\* peer_active_ of the transmitting transport
peer_active_ == in_process.peer_active_
\* whether transport_ of the peer is set
peer_transport_ == in_process.peer_transport_
\* the messages the peer's TransportWrapper has been notified of, in order
notified_messages == in_process.notified_messages
\* the number of messages given to Transmit so far
num_transmits == in_process.num_transmits
\* transmitting thread -> where it is in Transmit
transmit_call == in_process.transmit_call
\* transmitting thread -> the message of its call
transmit_message == in_process.transmit_message
\* the messages that Transmit saved
saved_numbers == in_process.saved_numbers
\* where the activating thread is in Activate and OnPeerActivated
activate_call == in_process.activate_call
\* the local saved_messages of OnPeerActivated not yet notified
taken_messages == in_process.taken_messages

\* saved_messages_.push_back(message) in Transmit moved to the front
SaveMessage_InFront(saved, message) == <<message>> \o saved

\* saved_messages_.push_back(message) in Transmit
SaveMessage(saved, message) == Append(saved, message)

TransmitThreads == {"X1", "X2"}

InProcessInit ==
  in_process = [saved_messages_ |-> << >>,
                peer_active_ |-> FALSE,
                peer_transport_ |-> FALSE,
                notified_messages |-> << >>,
                num_transmits |-> 0,
                transmit_call |-> [t \in TransmitThreads |-> "none"],
                transmit_message |-> [t \in TransmitThreads |-> 0],
                saved_numbers |-> {},
                activate_call |-> "none",
                taken_messages |-> << >>]

\* Transmit(message) while it holds mutex_: the message is saved if the
\* peer is not active; the messages are numbered in the order of the calls.
Transmit_Locked(t) ==
  /\ transmit_call[t] = "none"
  /\ num_transmits < MaxTransmits
  /\ in_process' =
       IF ~peer_active_
       THEN [in_process EXCEPT
               !.num_transmits = @ + 1,
               !.saved_numbers = @ \cup {num_transmits + 1},
               !.saved_messages_ = SaveMessage(@, num_transmits + 1)]
       ELSE [in_process EXCEPT
               !.num_transmits = @ + 1,
               !.transmit_message[t] = num_transmits + 1,
               !.transmit_call[t] = "unlocked"]

\* The rest of Transmit: it reads the peer's transport_ under the peer's
\* mutex and, if that is set, notifies it of the message.
Transmit_Notify(t) ==
  /\ transmit_call[t] = "unlocked"
  /\ in_process' =
       [in_process EXCEPT
          !.transmit_call[t] = "none",
          !.notified_messages =
             IF peer_transport_ THEN Append(@, transmit_message[t]) ELSE @]

\* Activate(transport, activity_handler) on the peer up to its call of
\* peer_->OnPeerActivated().
Activate ==
  /\ activate_call = "none"
  /\ in_process' = [in_process EXCEPT !.peer_transport_ = TRUE,
                                      !.activate_call = "OnPeerActivated"]

\* OnPeerActivated() while it holds mutex_: it sets peer_active_ and
\* returns if no message is saved, and takes the saved messages otherwise.
OnPeerActivated_Locked ==
  /\ activate_call = "OnPeerActivated"
  /\ in_process' =
       IF saved_messages_ = << >>
       THEN [in_process EXCEPT !.peer_active_ = TRUE,
                               !.activate_call = "returned"]
       ELSE [in_process EXCEPT !.taken_messages = saved_messages_,
                               !.saved_messages_ = << >>,
                               !.activate_call = "notifying"]

\* OnPeerActivated() after it has read the peer's transport_: the next of
\* the messages it took is notified; after the last it goes round the loop.
OnPeerActivated_Notify ==
  /\ activate_call = "notifying"
  /\ in_process' =
       IF ~peer_transport_
       THEN [in_process EXCEPT !.activate_call = "returned"]
       ELSE [in_process EXCEPT
               !.notified_messages = Append(@, Head(taken_messages)),
               !.taken_messages = Tail(@),
               !.activate_call = IF Len(taken_messages) = 1
                                 THEN "OnPeerActivated" ELSE @]

(* ---------------------------------------------------------------------- *)
(* Specifications.                                                         *)
(* ---------------------------------------------------------------------- *)

Init ==
  /\ QueueInit /\ PortalIdle /\ RouteIdle /\ TrapIdle
  /\ MpmcIdle /\ PutIdle /\ ParcelIdle /\ LinkIdle
  /\ ConcurrentIdle

Next ==
  \/ (\E n \in SeqNums, size \in Sizes : DoPush(n, size))
       /\ UNCHANGED <<pvars, rvars, tvars, mvars, uvars, xvars>>
  \/ DoPop /\ UNCHANGED <<pvars, rvars, tvars, mvars, uvars, xvars>>
  \/ (\E length \in Lengths : DoSetFinalSequenceLength(length))
       /\ UNCHANGED <<pvars, rvars, tvars, mvars, uvars, xvars>>

\* A queue on which only Push, Pop and SetFinalSequenceLength are called.
Spec == Init /\ [][Next]_vars

SkipNext ==
  \/ Next
  \/ DoSkipNextSequenceNumber /\ UNCHANGED <<pvars, rvars, tvars, mvars, uvars, xvars>>

\* A queue on which SkipNextSequenceNumber is called as well.
SkipSpec == Init /\ [][SkipNext]_vars

ReduceNext ==
  \/ Next
  \/ (\E amount \in Sizes : DoReduceNextElementSize(amount))
       /\ UNCHANGED <<pvars, rvars, tvars, mvars, uvars, xvars>>

\* A queue whose owner consumes its next element in parts.
ReduceSpec == Init /\ [][ReduceNext]_vars

PortalSpecInit ==
  /\ QueueIdle /\ PortalInit /\ RouteIdle /\ TrapIdle
  /\ MpmcIdle /\ PutIdle /\ ParcelIdle /\ LinkIdle
  /\ ConcurrentIdle

PortalSpecNext ==
  \/ (\E p \in Portals, size \in ParcelSizes : DoPut(p, size))
       /\ UNCHANGED <<qvars, rvars, tvars, mvars, uvars, xvars>>
  \/ (\E p \in Portals : DoClose(p)) /\ UNCHANGED <<qvars, rvars, tvars, mvars, uvars, xvars>>
  \/ (\E p \in Portals : DeliverParcel(p)) /\ UNCHANGED <<qvars, rvars, tvars, mvars, uvars, xvars>>
  \/ (\E p \in Portals : DeliverSideClosed(p))
       /\ UNCHANGED <<qvars, rvars, tvars, mvars, uvars, xvars>>
  \/ (\E p \in Portals, num_data_bytes \in 0..MaxParcelSize :
         DoGet(p, num_data_bytes))
       /\ UNCHANGED <<qvars, rvars, tvars, mvars, uvars, xvars>>
  \/ (\E p \in Portals, has_data \in BOOLEAN : DoBeginGet(p, has_data))
       /\ UNCHANGED <<qvars, rvars, tvars, mvars, uvars, xvars>>
  \/ (\E p \in Portals, consumed \in 0..MaxParcelSize :
         DoCommitGet(p, consumed))
       /\ UNCHANGED <<qvars, rvars, tvars, mvars, uvars, xvars>>
  \/ (\E p \in Portals : DoAbortGet(p)) /\ UNCHANGED <<qvars, rvars, tvars, mvars, uvars, xvars>>

\* Two portals putting, getting and closing.
PortalSpec == PortalSpecInit /\ [][PortalSpecNext]_vars

\* The flags and limits BeginPut is called with.
BeginPutFlags == {{}, {IPCZ_BEGIN_PUT_ALLOW_PARTIAL}}
BeginPutLimits == {NoPutLimits, PutLimits(1, 0), PutLimits(0, 1)}

TwoPhaseNext ==
  \/ (\E size \in ParcelSizes : DoPut("A", size))
       /\ UNCHANGED <<qvars, rvars, tvars, mvars, uvars, xvars>>
  \/ (\E flags \in BeginPutFlags, limits \in BeginPutLimits, num_data_bytes \in 0..MaxParcelSize + 1, has_data \in BOOLEAN : DoBeginPut("A", flags, limits, num_data_bytes, has_data))
       /\ UNCHANGED <<qvars, rvars, tvars, mvars, uvars, xvars>>
  \/ (\E produced \in 0..MaxParcelSize : DoCommitPut("A", produced))
       /\ UNCHANGED <<qvars, rvars, tvars, mvars, uvars, xvars>>
  \/ DoAbortPut("A") /\ UNCHANGED <<qvars, rvars, tvars, mvars, uvars, xvars>>
  \/ DoClose("A") /\ UNCHANGED <<qvars, rvars, tvars, mvars, uvars, xvars>>
  \/ DeliverParcel("B") /\ UNCHANGED <<qvars, rvars, tvars, mvars, uvars, xvars>>
  \/ DeliverSideClosed("B") /\ UNCHANGED <<qvars, rvars, tvars, mvars, uvars, xvars>>
  \/ (\E num_data_bytes \in 0..MaxParcelSize : DoGet("B", num_data_bytes))
       /\ UNCHANGED <<qvars, rvars, tvars, mvars, uvars, xvars>>
  \/ (\E has_data \in BOOLEAN : DoBeginGet("B", has_data))
       /\ UNCHANGED <<qvars, rvars, tvars, mvars, uvars, xvars>>
  \/ (\E consumed \in 0..MaxParcelSize : DoCommitGet("B", consumed))
       /\ UNCHANGED <<qvars, rvars, tvars, mvars, uvars, xvars>>
  \/ DoAbortGet("B") /\ UNCHANGED <<qvars, rvars, tvars, mvars, uvars, xvars>>

\* Portal A putting in one and in two phases, portal B getting in one and
\* in two phases.
TwoPhaseSpec == PortalSpecInit /\ [][TwoPhaseNext]_vars

TwoPhaseGetNext ==
  \/ (\E size \in ParcelSizes : DoPut("A", size))
       /\ UNCHANGED <<qvars, rvars, tvars, mvars, uvars, xvars>>
  \/ DoClose("A") /\ UNCHANGED <<qvars, rvars, tvars, mvars, uvars, xvars>>
  \/ DeliverParcel("B") /\ UNCHANGED <<qvars, rvars, tvars, mvars, uvars, xvars>>
  \/ DeliverSideClosed("B") /\ UNCHANGED <<qvars, rvars, tvars, mvars, uvars, xvars>>
  \/ (\E num_data_bytes \in 0..MaxParcelSize : DoGet("B", num_data_bytes))
       /\ UNCHANGED <<qvars, rvars, tvars, mvars, uvars, xvars>>
  \/ (\E has_data \in BOOLEAN : DoBeginGet("B", has_data))
       /\ UNCHANGED <<qvars, rvars, tvars, mvars, uvars, xvars>>
  \/ (\E consumed \in 0..MaxParcelSize : DoCommitGet("B", consumed))
       /\ UNCHANGED <<qvars, rvars, tvars, mvars, uvars, xvars>>
  \/ DoAbortGet("B") /\ UNCHANGED <<qvars, rvars, tvars, mvars, uvars, xvars>>

\* Portal A putting in one phase, portal B getting in one and in two
\* phases.
TwoPhaseGetSpec == PortalSpecInit /\ [][TwoPhaseGetNext]_vars

\* The lengths named in the first StopProxying message among `messages`,
\* unless `named` already holds those of an earlier one.
StopProxyingNamed(named, messages) ==
  LET stops == {i \in 1..Len(messages) : messages[i].type = "StopProxying"}
      first == messages[CHOOSE i \in stops : \A j \in stops : i <= j]
  IN
  IF named.has \/ stops = {} THEN named
  ELSE SomeStop(first.inbound_sequence_length, first.outbound_sequence_length)

RouteSpecInit ==
  /\ QueueIdle /\ PortalIdle /\ RouteInit /\ NoStopNamed /\ TrapIdle
  /\ MpmcIdle /\ PutIdle /\ ParcelIdle /\ LinkIdle
  /\ ConcurrentIdle

RouteSpecNext ==
  \/ (\E side \in Portals : RoutePut(side)) /\ UNCHANGED <<qvars, pvars, tvars, mvars, uvars, xvars>>
  \/ (\E side \in Portals : RouteGet(side)) /\ UNCHANGED <<qvars, pvars, tvars, mvars, uvars, xvars>>
  \/ MovePortal /\ UNCHANGED <<qvars, pvars, tvars, mvars, uvars, xvars>>
  \/ BypassProxy_SetOutwardLink /\ UNCHANGED <<qvars, pvars, tvars, mvars, uvars, xvars>>
  \/ BypassProxy_Transmit /\ UNCHANGED <<qvars, pvars, tvars, mvars, uvars, xvars>>
  \/ BypassProxy_Unpause /\ UNCHANGED <<qvars, pvars, tvars, mvars, uvars, xvars>>
  \/ OnAcceptParcel_NewRouter /\ UNCHANGED <<qvars, pvars, tvars, mvars, uvars, xvars>>
  \/ (\E l \in NodeLinks : OnAcceptParcel(l[1], l[2]))
       /\ UNCHANGED <<qvars, pvars, tvars, mvars, uvars, xvars>>
  \/ (\E from \in Nodes \ {"N1"} : OnBypassProxy(from))
       /\ stop_named' = StopProxyingNamed(stop_named, transport'[<<"N1", "N2">>])
       /\ UNCHANGED <<qvars, pvars, tvars, mvars, uvars, cvars, dvars, yvars>>
  \/ OnStopProxying /\ UNCHANGED <<qvars, pvars, tvars, mvars, uvars, xvars>>
  \/ OnProxyWillStop /\ UNCHANGED <<qvars, pvars, tvars, mvars, uvars, xvars>>

\* A route whose B end moves to a third node and whose proxy is bypassed.
RouteSpec == RouteSpecInit /\ [][RouteSpecNext]_vars

BypassSpecNext ==
  \/ MovePortal /\ UNCHANGED <<qvars, pvars, tvars, mvars, uvars, xvars>>
  \/ OnAcceptParcel_NewRouter /\ UNCHANGED <<qvars, pvars, tvars, mvars, uvars, xvars>>
  \/ BypassProxy_SetOutwardLink /\ UNCHANGED <<qvars, pvars, tvars, mvars, uvars, xvars>>
  \/ BypassProxy_Transmit /\ UNCHANGED <<qvars, pvars, tvars, mvars, uvars, xvars>>
  \/ BypassProxy_Unpause /\ UNCHANGED <<qvars, pvars, tvars, mvars, uvars, xvars>>
  \/ (\E from \in Nodes \ {"N1"}, bypass_key \in {BypassKey, BypassKey + 1}, new_routing_id \in RoutingIds :
         TransmitBypassProxy(from, bypass_key, new_routing_id))
       /\ UNCHANGED <<qvars, pvars, tvars, mvars, uvars, xvars>>
  \/ (\E from \in Nodes \ {"N1"} : OnBypassProxy(from))
       /\ UNCHANGED <<qvars, pvars, tvars, mvars, uvars, xvars>>
  \/ OnStopProxying /\ UNCHANGED <<qvars, pvars, tvars, mvars, uvars, xvars>>
  \/ OnProxyWillStop /\ UNCHANGED <<qvars, pvars, tvars, mvars, uvars, xvars>>

\* The route whose proxy is bypassed, with BypassProxy requests that nodes
\* other than the proxy's successor transmit, or that carry another key.
BypassSpec == RouteSpecInit /\ [][BypassSpecNext]_vars

IntroductionSpecInit ==
  /\ QueueIdle /\ PortalIdle /\ RouteIdle /\ TrapIdle
  /\ MpmcIdle /\ PutIdle /\ ParcelIdle /\ LinkIdle
  /\ IntroductionInit /\ BypassLockIdle /\ StableLinkIdle
  /\ DeactivationIdle /\ InProcessIdle

IntroductionSpecNext ==
  \/ (\E name \in IntroducedNames : EstablishLink(name)) /\ UNCHANGED ExceptIntroduction
  \/ (\E num_bytes \in 0..MaxTransportHandles, num_os_handles \in 0..MaxTransportHandles :
         OnRequestIntroduction(num_bytes, num_os_handles))
       /\ UNCHANGED ExceptIntroduction
  \/ ReceiveIntroduceNode /\ UNCHANGED ExceptIntroduction

\* A node that asks its broker to introduce it to a node the broker knows
\* and to one it does not.
IntroductionSpec == IntroductionSpecInit /\ [][IntroductionSpecNext]_vars

BypassLockSpecInit ==
  /\ QueueIdle /\ PortalIdle /\ RouteIdle /\ TrapIdle
  /\ MpmcIdle /\ PutIdle /\ ParcelIdle /\ LinkIdle
  /\ IntroductionIdle /\ BypassLockInit /\ StableLinkIdle
  /\ DeactivationIdle /\ InProcessIdle

BypassLockSpecNext ==
  \/ (\E source \in BypassSources : TryLockForBypass_TryLock(source)) /\ UNCHANGED ExceptBypassLock
  \/ TryLockForBypass_Store /\ UNCHANGED ExceptBypassLock
  \/ TryLockForClosure /\ UNCHANGED ExceptBypassLock
  \/ Unlock /\ UNCHANGED ExceptBypassLock
  \/ (\E source \in BypassSources, sees_store \in BOOLEAN : DoCanNodeRequestBypass(source, sees_store))
       /\ UNCHANGED ExceptBypassLock

\* Side B locking the link state for bypass and for closure and unlocking
\* it, while side A asks whether a node may request a bypass.
BypassLockSpec == BypassLockSpecInit /\ [][BypassLockSpecNext]_vars

StableLinkSpecInit ==
  /\ QueueIdle /\ PortalIdle /\ RouteIdle /\ TrapIdle
  /\ MpmcIdle /\ PutIdle /\ ParcelIdle /\ LinkIdle
  /\ IntroductionIdle /\ BypassLockIdle /\ StableLinkInit
  /\ DeactivationIdle /\ InProcessIdle

StableLinkSpecNext ==
  \/ (\E t \in SetterThreads : SetLinkState_Busy(t)) /\ UNCHANGED ExceptStableLink
  \/ (\E t \in SetterThreads : SetLinkState_Exchange(t)) /\ UNCHANGED ExceptStableLink
  \/ (\E t \in SetterThreads : SetLinkState_Present(t)) /\ UNCHANGED ExceptStableLink
  \/ (\E t \in SetterThreads : SetLinkState_LoadStable(t)) /\ UNCHANGED ExceptStableLink
  \/ MarkSideStable_Store /\ UNCHANGED ExceptStableLink
  \/ StableStoreVisible /\ UNCHANGED ExceptStableLink
  \/ MarkSideStable_GetLinkState /\ UNCHANGED ExceptStableLink

\* SetLinkState called twice and MarkSideStable once on one link.
StableLinkSpec == StableLinkSpecInit /\ [][StableLinkSpecNext]_vars

DeactivationSpecInit ==
  /\ QueueIdle /\ PortalIdle /\ RouteIdle /\ TrapIdle
  /\ MpmcIdle /\ PutIdle /\ ParcelIdle /\ LinkIdle
  /\ IntroductionIdle /\ BypassLockIdle /\ StableLinkIdle
  /\ DeactivationInit /\ InProcessIdle

DeactivationSpecNext ==
  \/ (\E routing_id \in RoutingIds : DoAddRoute(routing_id)) /\ UNCHANGED ExceptDeactivation
  \/ (\E t \in DeactivateThreads \cup {DestructorThread} : Deactivate_Locked(t))
       /\ UNCHANGED ExceptDeactivation
  \/ (\E t \in DeactivateThreads \cup {DestructorThread} : Deactivate_Transport(t))
       /\ UNCHANGED ExceptDeactivation

\* Threads that deactivate one NodeLink while routes are bound to it, and
\* the destruction of the link.
DeactivationSpec == DeactivationSpecInit /\ [][DeactivationSpecNext]_vars

InProcessSpecInit ==
  /\ QueueIdle /\ PortalIdle /\ RouteIdle /\ TrapIdle
  /\ MpmcIdle /\ PutIdle /\ ParcelIdle /\ LinkIdle
  /\ IntroductionIdle /\ BypassLockIdle /\ StableLinkIdle
  /\ DeactivationIdle /\ InProcessInit

InProcessSpecNext ==
  \/ (\E t \in TransmitThreads : Transmit_Locked(t)) /\ UNCHANGED ExceptInProcess
  \/ (\E t \in TransmitThreads : Transmit_Notify(t)) /\ UNCHANGED ExceptInProcess
  \/ Activate /\ UNCHANGED ExceptInProcess
  \/ OnPeerActivated_Locked /\ UNCHANGED ExceptInProcess
  \/ OnPeerActivated_Notify /\ UNCHANGED ExceptInProcess

\* Two threads that transmit on an InProcessTransport while another thread
\* activates its peer.
InProcessSpec == InProcessSpecInit /\ [][InProcessSpecNext]_vars

TrapSpecInit ==
  /\ QueueIdle /\ PortalIdle /\ RouteIdle /\ TrapInit
  /\ MpmcIdle /\ PutIdle /\ ParcelIdle /\ LinkIdle
  /\ ConcurrentIdle

TrapSpecNext ==
  \/ (\E t \in Threads, p \in Portals : TrapPut(t, p))
       /\ UNCHANGED <<qvars, pvars, rvars, mvars, uvars, xvars>>
  \/ (\E t \in Threads, p \in Portals : TrapGet(t, p))
       /\ UNCHANGED <<qvars, pvars, rvars, mvars, uvars, xvars>>
  \/ (\E t \in Threads, p \in Portals : DoArmTrap(t, p))
       /\ UNCHANGED <<qvars, pvars, rvars, mvars, uvars, xvars>>
  \/ (\E t \in Threads, p \in Portals, flags \in DestroyTrapFlags :
         DoDestroyTrap(t, p, flags))
       /\ UNCHANGED <<qvars, pvars, rvars, mvars, uvars, xvars>>
  \/ (\E t \in Threads : DispatchBegin(t))
       /\ UNCHANGED <<qvars, pvars, rvars, mvars, uvars, xvars>>
  \/ (\E t \in Threads : HandlerEnter(t))
       /\ UNCHANGED <<qvars, pvars, rvars, mvars, uvars, xvars>>
  \/ (\E t \in Threads : HandlerReturn(t))
       /\ UNCHANGED <<qvars, pvars, rvars, mvars, uvars, xvars>>

\* Two threads calling the API on a pair of portals with a trap each.
TrapSpec == TrapSpecInit /\ [][TrapSpecNext]_vars

DisableSpecNext ==
  \/ (\E t \in Threads, p \in Portals : TrapPut(t, p))
       /\ UNCHANGED <<qvars, pvars, rvars, mvars, uvars, xvars>>
  \/ (\E t \in Threads, p \in Portals : DoArmTrap(t, p))
       /\ UNCHANGED <<qvars, pvars, rvars, mvars, uvars, xvars>>
  \/ (\E t \in Threads, p \in Portals, flags \in DestroyTrapFlags :
         Disable_Call(t, p, flags))
       /\ UNCHANGED <<qvars, pvars, rvars, mvars, uvars, xvars>>
  \/ (\E t \in Threads : Disable_Return(t))
       /\ UNCHANGED <<qvars, pvars, rvars, mvars, uvars, xvars>>
  \/ (\E t \in Threads : DispatchBegin(t))
       /\ UNCHANGED <<qvars, pvars, rvars, mvars, uvars, xvars>>
  \/ (\E t \in Threads : HandlerEnter(t))
       /\ UNCHANGED <<qvars, pvars, rvars, mvars, uvars, xvars>>
  \/ (\E t \in Threads : HandlerReturn(t))
       /\ UNCHANGED <<qvars, pvars, rvars, mvars, uvars, xvars>>

\* A thread that can go on with its dispatch, return from its handler or
\* acquire the mutex in Trap::Disable eventually does: every handler
\* invocation finishes its own work.
DisableFairness ==
  \A t \in Threads :
    /\ WF_vars(DispatchBegin(t) /\ UNCHANGED <<qvars, pvars, rvars, mvars, uvars, xvars>>)
    /\ WF_vars(HandlerEnter(t) /\ UNCHANGED <<qvars, pvars, rvars, mvars, uvars, xvars>>)
    /\ WF_vars(HandlerReturn(t) /\ UNCHANGED <<qvars, pvars, rvars, mvars, uvars, xvars>>)
    /\ WF_vars(Disable_Return(t) /\ UNCHANGED <<qvars, pvars, rvars, mvars, uvars, xvars>>)

\* Two threads that call Trap::Disable with either flag, from top level and
\* from handlers, and whose handlers run to their end.
DisableSpec == TrapSpecInit /\ [][DisableSpecNext]_vars /\ DisableFairness

MpmcSpecInit ==
  /\ QueueIdle /\ PortalIdle /\ RouteIdle /\ TrapIdle
  /\ MpmcInit /\ PutIdle /\ ParcelIdle /\ LinkIdle
  /\ ConcurrentIdle

MpmcSpecNext ==
  \/ (\E t \in Producers : PushBack_Load(t))
       /\ UNCHANGED <<qvars, pvars, rvars, tvars, uvars, xvars>>
  \/ (\E t \in Producers : PushBack_Claim(t))
       /\ UNCHANGED <<qvars, pvars, rvars, tvars, uvars, xvars>>
  \/ (\E t \in Producers : PushBack_Reload(t))
       /\ UNCHANGED <<qvars, pvars, rvars, tvars, uvars, xvars>>
  \/ (\E t \in Producers : PushBack_Copy(t))
       /\ UNCHANGED <<qvars, pvars, rvars, tvars, uvars, xvars>>
  \/ (\E t \in Producers : PushBack_Advance(t))
       /\ UNCHANGED <<qvars, pvars, rvars, tvars, uvars, xvars>>
  \/ (\E t \in Producers : PushBack_Publish(t))
       /\ UNCHANGED <<qvars, pvars, rvars, tvars, uvars, xvars>>
  \/ (\E t \in Consumers : PopFront_Load(t))
       /\ UNCHANGED <<qvars, pvars, rvars, tvars, uvars, xvars>>
  \/ (\E t \in Consumers : PopFront_Claim(t))
       /\ UNCHANGED <<qvars, pvars, rvars, tvars, uvars, xvars>>
  \/ (\E t \in Consumers : PopFront_Reload(t))
       /\ UNCHANGED <<qvars, pvars, rvars, tvars, uvars, xvars>>
  \/ (\E t \in Consumers : PopFront_Copy(t))
       /\ UNCHANGED <<qvars, pvars, rvars, tvars, uvars, xvars>>
  \/ (\E t \in Consumers : PopFront_Advance(t))
       /\ UNCHANGED <<qvars, pvars, rvars, tvars, uvars, xvars>>
  \/ (\E t \in Consumers : PopFront_Publish(t))
       /\ UNCHANGED <<qvars, pvars, rvars, tvars, uvars, xvars>>

\* Two producers and two consumers of one MpmcQueue.
MpmcSpec == MpmcSpecInit /\ [][MpmcSpecNext]_vars

PutSpecInit ==
  /\ QueueIdle /\ PortalIdle /\ RouteIdle /\ TrapIdle
  /\ MpmcIdle /\ PutInit /\ ParcelIdle /\ LinkIdle
  /\ ConcurrentIdle

PutSpecNext ==
  \/ (\E sender \in Senders, data_size \in ParcelSizes,
         handles \in AttachedHandles, limits \in LimitChoices :
         DoPortalPut(sender, data_size, handles, limits))
       /\ UNCHANGED <<qvars, pvars, rvars, tvars, mvars, xvars>>
  \/ (\E p \in Senders, op \in TwoPhaseOps : DoPortalTwoPhase(p, op))
       /\ UNCHANGED <<qvars, pvars, rvars, tvars, mvars, xvars>>
  \/ (\E r \in Receivers : DoPortalGet(r))
       /\ UNCHANGED <<qvars, pvars, rvars, tvars, mvars, xvars>>
  \/ (\E r \in Receivers : DoPortalClose(r))
       /\ UNCHANGED <<qvars, pvars, rvars, tvars, mvars, xvars>>

\* Puts with attached portals and limits over local and remote links.
PutSpec == PutSpecInit /\ [][PutSpecNext]_vars

ParcelSpecNext ==
  \/ (\E size \in ParcelSizes, portals \in Attachable :
         PutWithPortals(size, portals))
       /\ UNCHANGED <<qvars, pvars, rvars, tvars, mvars, uvars, dvars, gvars, yvars>>
  \/ TransmitNextParcel
       /\ UNCHANGED <<qvars, pvars, rvars, tvars, mvars, uvars, dvars, gvars, yvars>>
  \/ DropOutgoingParcels
       /\ UNCHANGED <<qvars, pvars, rvars, tvars, mvars, uvars, dvars, gvars, yvars>>
  \/ OnAcceptParcelWithPortals
       /\ UNCHANGED <<qvars, pvars, rvars, tvars, mvars, uvars, dvars, gvars, yvars>>
  \/ (\E storage \in 0..Cardinality(SentPortals) : ReceiverGet(storage))
       /\ UNCHANGED <<qvars, pvars, rvars, tvars, mvars, uvars, dvars, gvars, yvars>>
  \/ ReceiverBeginGet
       /\ UNCHANGED <<qvars, pvars, rvars, tvars, mvars, uvars, dvars, gvars, yvars>>
  \/ (\E consumed \in 0..MaxParcelSize, storage \in 0..Cardinality(SentPortals) : ReceiverCommitGet(consumed, storage))
       /\ UNCHANGED <<qvars, pvars, rvars, tvars, mvars, uvars, dvars, gvars, yvars>>
  \/ CloseReceiver
       /\ UNCHANGED <<qvars, pvars, rvars, tvars, mvars, uvars, dvars, gvars, yvars>>

ParcelSpecInit ==
  /\ QueueIdle /\ PortalIdle /\ RouteIdle /\ TrapIdle
  /\ MpmcIdle /\ PutIdle /\ ParcelInit /\ LinkIdle
  /\ ConcurrentIdle

\* Parcels with attached portals sent, received, retrieved and dropped.
ParcelSpec == ParcelSpecInit /\ [][ParcelSpecNext]_vars

LinkSpecNext ==
  \/ (\E n \in LinkNodes : NodeShutDown(n))
       /\ UNCHANGED <<qvars, pvars, rvars, tvars, mvars, uvars, cvars, gvars, yvars>>
  \/ (\E n \in LinkNodes, routing_id \in RoutingIds : NodeLink_RemoveRoute(n, routing_id))
       /\ UNCHANGED <<qvars, pvars, rvars, tvars, mvars, uvars, cvars, gvars, yvars>>
  \/ (\E from \in LinkNodes, message \in TransmittedMessages :
         TransmitAndNotify(from, message))
       /\ UNCHANGED <<qvars, pvars, rvars, tvars, mvars, uvars, cvars, gvars, yvars>>

LinkSpecInit ==
  /\ QueueIdle /\ PortalIdle /\ RouteIdle /\ TrapIdle
  /\ MpmcIdle /\ PutIdle /\ ParcelIdle /\ LinkInit
  /\ ConcurrentIdle

\* Two nodes that exchange messages, well-formed and malformed, and shut
\* down.
LinkSpec == LinkSpecInit /\ [][LinkSpecNext]_vars

\* Some transport holds a message that has not been dispatched: the state
\* in which NodeLink::OnTransportMessage can run.
MessageInFlight == \E l \in NodeLinks : transport[l] # << >>

\* The next message of some transport is taken by its handler: what every
\* step of NodeLink::OnTransportMessage does.
MessageReceived ==
  \E l \in NodeLinks :
    /\ transport[l] # << >>
    /\ transport'[l] = Tail(transport[l])

\* NodeLink::BypassProxy has transmitted its message and has yet to unpause
\* S's outbound transmission.
UnpausePending == routers["S"].bypass = "transmitted"

\* The step BypassProxy_Unpause.
Unpaused == UnpausePending /\ routers'["S"].bypass = "done"

\* The thread that runs NodeLink::BypassProxy runs it to its end, and a
\* transport with a message in flight eventually dispatches one. The weak
\* fairness of BypassProxy_Unpause and of OnTransportMessage, the steps that
\* work through a SequencedQueue, is written with the step's enabling
\* condition and its effect.
RouteFairness ==
  /\ WF_vars(BypassProxy_SetOutwardLink /\ UNCHANGED <<qvars, pvars, tvars, mvars, uvars, xvars>>)
  /\ WF_vars(BypassProxy_Transmit /\ UNCHANGED <<qvars, pvars, tvars, mvars, uvars, xvars>>)
  /\ ([]<>~UnpausePending \/ []<><<Unpaused>>_vars)
  /\ ([]<>~MessageInFlight \/ []<><<MessageReceived>>_vars)

\* The same route with messages and running calls making progress.
RouteFairSpec == RouteSpecInit /\ [][RouteSpecNext]_vars /\ RouteFairness

(* ---------------------------------------------------------------------- *)
(* Properties of the SequencedQueue.                                       *)
(* ---------------------------------------------------------------------- *)

\* An element with sequence number n was pushed and has not been popped.
HeldAt(n) == \E e \in held : e.n = n

\* The element held at sequence number n.
HeldElement(n) == CHOOSE e \in held : e.n = n

\* The length of the contiguous run of held sequence numbers that starts
\* at the queue's current sequence number.
HeadRun ==
  CHOOSE k \in 0..(MaxSeq + 2) :
    /\ \A i \in 0..(k - 1) : HeldAt(queue.base_sequence_number + i)
    /\ ~HeldAt(queue.base_sequence_number + k)

RECURSIVE SizeOfRun(_, _)
\* The sum of the sizes of the k elements held from sequence number n on.
SizeOfRun(n, k) ==
  IF k = 0 THEN 0
  ELSE GetElementSize(HeldElement(n)) + SizeOfRun(n + 1, k - 1)

\* No operation dereferenced an empty entry or indexed outside entries_.
QueueWellFormed == ~queue.ub

\* C4: the number of available elements is the length of the contiguous
\* run of occupied positions starting at the current sequence number, and
\* is 0 when the position at the current sequence number is empty.
C4_NumAvailableIsHeadRun == GetNumAvailableElements(queue) = HeadRun

\* C4 witness: after a successful Pop no element is available although one
\* is queued, behind a gap.
C4_Witness ==
  /\ last.op = "Pop" /\ last.ok
  /\ GetNumAvailableElements(queue) = 0
  /\ HeldAt(queue.base_sequence_number + 1)

\* C5: the total available element size is the sum of the sizes of exactly
\* the elements counted as available, and 0 when none is available.
C5_TotalSizeIsSumOfHeadRun ==
  GetTotalAvailableElementSize(queue)
    = SizeOfRun(queue.base_sequence_number, HeadRun)

\* C5 witness: after a successful Pop two elements of different sizes are
\* available.
C5_Witness ==
  /\ last.op = "Pop" /\ last.ok
  /\ HeadRun = 2
  /\ GetTotalAvailableElementSize(queue) = 3

\* C6: once a final sequence length L has been set, no Push with sequence
\* number >= L succeeds and no Pop returns an element with sequence number
\* >= L, whatever operations follow.
C6_NothingAtOrAboveFinalLength ==
  queue.final_sequence_length.has =>
    /\ (last.op = "Push" /\ last.ok
          => last.n < queue.final_sequence_length.value)
    /\ (last.op = "Pop" /\ last.ok
          => out.n < queue.final_sequence_length.value)

\* C7: the k-th successful Pop returns the element with sequence number
\* initial + k - 1; a Pop fails and leaves its output untouched whenever
\* the element for the current sequence number has not been pushed.
C7_PopsInSequenceOrder ==
  [][last'.op = "Pop" =>
       IF HeldAt(queue.base_sequence_number)
       THEN /\ last'.ok
            /\ out' = HeldElement(queue.base_sequence_number)
            /\ out'.n = initial + Len(popped)
       ELSE /\ ~last'.ok
            /\ out' = out
            /\ popped' = popped]_vars

\* C7 witness: a Pop failed after an earlier one succeeded, while an
\* element with a later sequence number is queued.
C7_Witness ==
  /\ last.op = "Pop" /\ ~last.ok
  /\ Len(popped) >= 1
  /\ held # {}

\* C8: Push(n, v) fails when n is below the current sequence number or
\* position n is occupied, and a failed Push leaves the queue unchanged.
C8_FailedPushChangesNothing ==
  [][last'.op = "Push" =>
       /\ (last'.n < queue.base_sequence_number \/ HeldAt(last'.n)
             => ~last'.ok)
       /\ (~last'.ok => queue' = queue /\ held' = held)]_vars

\* C8 witness: a Push onto an occupied position has failed.
C8_Witness ==
  /\ last.op = "Push" /\ ~last.ok
  /\ HeldAt(last.n)
  /\ HeldElement(last.n).size # last.size

\* C9: SetFinalSequenceLength(L) succeeds at most once; it fails if a final
\* length was already set, if an element with sequence number >= L is held
\* or if L is below the current sequence number; a failed call leaves the
\* final length as it was, and a set final length never changes.
C9_SetFinalSequenceLengthOneShot ==
  [][/\ (queue.final_sequence_length.has
           => queue'.final_sequence_length = queue.final_sequence_length)
     /\ (last'.op = "SetFinalSequenceLength" =>
           /\ (\/ queue.final_sequence_length.has
               \/ \E e \in held : e.n >= last'.n
               \/ last'.n < queue.base_sequence_number
                 => ~last'.ok)
           /\ (~last'.ok
                 => queue'.final_sequence_length
                      = queue.final_sequence_length)
           /\ (last'.ok
                 => /\ ~queue.final_sequence_length.has
                    /\ queue'.final_sequence_length
                         = SomeLength(last'.n)))]_vars

\* C9 witness: a second SetFinalSequenceLength call has failed.
C9_Witness ==
  /\ last.op = "SetFinalSequenceLength" /\ ~last.ok
  /\ queue.final_sequence_length.has
  /\ queue.final_sequence_length.value # last.n

\* C11: a router reports its route dead exactly when the sequence length of
\* the closed other side is known and every parcel below that length has
\* been retrieved; so never while one of them is queued or has yet to
\* arrive.
C11_DeadIffClosedAndAllRetrieved ==
  IsRouteDead(queue) <=>
    /\ queue.final_sequence_length.has
    /\ \A n \in initial..(queue.final_sequence_length.value - 1) :
         \E i \in 1..Len(popped) : popped[i].n = n

\* C11 witness: the route is dead after two parcels were retrieved.
C11_Witness == IsRouteDead(queue) /\ Len(popped) >= 2

\* C36: with a final sequence length L set, calling SkipNextSequenceNumber
\* (on a queue whose next element is absent) any number of times, between
\* Pushes and Pops, never makes a Push with a sequence number >= L succeed:
\* the sequence numbers that can still be pushed all lie in
\* [current_sequence_number, L).
C36_SkipKeepsPushableBelowFinalLength ==
  queue.final_sequence_length.has =>
    \A n \in SeqNums :
      Push(queue, n, Element(n, 1)).ok =>
        /\ current_sequence_number(queue) <= n
        /\ n < queue.final_sequence_length.value

\* C37: after ReduceNextElementSize(a) has accounted for a partial
\* consumption of the head element, GetTotalAvailableElementSize is the sum
\* of the current (reduced) sizes of the available elements, and stays so
\* after any later Push and Pop, a Push that extends the run of elements
\* that starts at the head included.
C37_TotalSizeFollowsReducedSizes ==
  HasNextElement(queue) =>
    GetTotalAvailableElementSize(queue)
      = SizeOfRun(current_sequence_number(queue), HeadRun)

(* ---------------------------------------------------------------------- *)
(* Properties of a pair of portals.                                        *)
(* ---------------------------------------------------------------------- *)

\* The closure of p's peer has reached p.
PeerClosureArrived(p) ==
  /\ backend[Peer(p)].closed
  /\ \A i \in 1..Len(wire[p]) : wire[p][i].type # "SideClosed"

\* The sequence numbers of the parcels in a sequence of parcels.
SequenceNumbers(parcels) == [i \in 1..Len(parcels) |-> parcels[i].n]

\* Once the closure of p's peer has reached p, the parcels p has retrieved
\* followed by those it can still retrieve are exactly the parcels the peer
\* put, in the order it put them.
AllPutParcelsRetrievable(p) ==
  PeerClosureArrived(p) =>
    SequenceNumbers(got[p]) \o SequenceNumbers(backend[p].incoming_parcels)
      = SequenceNumbers(put_log[Peer(p)])

RECURSIVE LocalBytes(_)
LocalBytes(parcels) ==
  IF parcels = << >> THEN 0
  ELSE Head(parcels).size + LocalBytes(Tail(parcels))

\* C21: after any sequence of parcel arrivals, Get calls and CommitGet
\* calls (full or partial), the status of a portal reports a local parcel
\* count equal to the number of parcels still queued for retrieval and a
\* local byte count equal to the total of their not yet consumed bytes.
C21_StatusCountsQueuedParcels ==
  \A p \in Portals :
    /\ backend[p].status.num_local_parcels = Len(backend[p].incoming_parcels)
    /\ backend[p].status.num_local_bytes
         = LocalBytes(backend[p].incoming_parcels)

\* C22: when BeginPut succeeds, a following AbortPut succeeds, releases the
\* reserved parcel space, transmits nothing, consumes no sequence number
\* and leaves the portal status exactly as before BeginPut, so that a new
\* Put or BeginPut is accepted afterwards.
C22_AbortPutUndoesBeginPut ==
  [][pcall'.op = "AbortPut" /\ backend[pcall'.portal].pending_parcel =>
       LET p == pcall'.portal IN
       /\ pcall'.result = "OK"
       /\ ~backend'[p].pending_parcel
       /\ wire' = wire
       /\ route' = route
       /\ backend'[p].status = backend[p].status
       /\ Put(backend'[p]).result = "OK"
       /\ BeginPut(backend'[p], {}, NoPutLimits, 1, TRUE).result = "OK"]_vars

\* C23: when BeginGet succeeds, a following AbortGet succeeds and leaves
\* the incoming queue, the head parcel and the portal status exactly as
\* before BeginGet; the next Get returns that same parcel in full.  BeginGet
\* changes nothing but in_two_phase_get_, no step taken during the
\* two-phase get touches the head parcel, and AbortGet changes nothing but
\* in_two_phase_get_ again.
C23_AbortGetUndoesBeginGet ==
  [][/\ (pcall'.op = "BeginGet" /\ pcall'.result = "OK" =>
           LET p == pcall'.portal IN
           /\ backend'[p] = [backend[p] EXCEPT !.in_two_phase_get = TRUE]
           /\ pcall'.parcel = Head(backend[p].incoming_parcels))
     /\ \A p \in Portals :
          backend[p].in_two_phase_get /\ backend'[p].in_two_phase_get =>
            Head(backend'[p].incoming_parcels)
              = Head(backend[p].incoming_parcels)
     /\ (pcall'.op = "AbortGet" /\ backend[pcall'.portal].in_two_phase_get =>
           LET p == pcall'.portal
               next == Get(backend'[p], MaxParcelSize)
           IN
           /\ pcall'.result = "OK"
           /\ backend'[p] = [backend[p] EXCEPT !.in_two_phase_get = FALSE]
           /\ next.result = "OK"
           /\ next.parcel = Head(backend[p].incoming_parcels))]_vars

\* C23 witness: a two-phase get on a queued parcel has been aborted and the
\* parcel is still queued.
C23_Witness ==
  /\ pcall.op = "AbortGet" /\ pcall.result = "OK"
  /\ backend[pcall.portal].incoming_parcels # << >>
  /\ ~backend[pcall.portal].in_two_phase_get

(* ---------------------------------------------------------------------- *)
(* Properties of the route across three nodes.                             *)
(* ---------------------------------------------------------------------- *)

\* The elements of a sequence.
Range(seq) == {seq[i] : i \in 1..Len(seq)}

\* seq is a prefix of full.
IsPrefix(seq, full) ==
  /\ Len(seq) <= Len(full)
  /\ \A i \in 1..Len(seq) : seq[i] = full[i]

\* No message is in flight and no call of NodeLink::BypassProxy is running.
Quiescent ==
  /\ \A l \in NodeLinks : transport[l] = << >>
  /\ routers["S"].bypass \in {"none", "done"}

\* The parcels the portal of `side` can retrieve without any further
\* arrival, in order.
Retrievable(side) == PopAll(routers[EndpointOf(side)].inbound, << >>).elements

\* C1: for the portals A and B of a route, under any interleaving of Put,
\* Get, the move of portal B and the bypass of the proxy it leaves behind,
\* the parcels one portal has retrieved are a prefix of the parcels the
\* other has put, in put order; and once nothing is in flight every parcel
\* put is retrieved or next to be retrieved, so none is skipped.
C1_RetrievedIsPrefixOfPut ==
  \A side \in Portals :
    /\ IsPrefix(received[side], sent[Peer(side)])
    /\ (Quiescent =>
          received[side] \o Retrievable(side) = sent[Peer(side)])

\* C1 witness: the proxy has been bypassed and has retired, and both
\* portals have retrieved parcels, the moved one at least two.
C1_Witness ==
  /\ routers["P"].mode = "Dead"
  /\ Len(received["A"]) >= 1
  /\ Len(received["B"]) >= 2

\* NodeLink::BypassProxy has filled in its message for S.
BypassBegun == routers["S"].bypass \in {"linked", "transmitted", "done"}

\* The proxied outbound sequence length carried in BypassProxy.
ProxiedLength ==
  routers["S"].bypass_message.proxied_outbound_sequence_length

\* C2: every parcel from the B side with a sequence number below the
\* proxied outbound sequence length carried in BypassProxy reaches R
\* through P (node N2), every parcel at or above it reaches R over the new
\* direct link (node N3), and each parcel reaches R exactly once, with the
\* sequence number it was put with: none arrives twice, none is dropped,
\* and once nothing is in flight all have arrived.
C2_ParcelsSplitAtProxiedLength ==
  /\ \A a \in arrived : a.parcel \in Range(sent["B"])
  /\ Cardinality({a.parcel.n : a \in arrived}) = num_arrived
  /\ dropped = {}
  /\ (BypassBegun =>
        \A a \in arrived :
          /\ (a.parcel.n < ProxiedLength => a.via = "N2")
          /\ (a.parcel.n >= ProxiedLength => a.via = "N3"))
  /\ (Quiescent => {a.parcel : a \in arrived} = Range(sent["B"]))

\* C2 witness: a parcel S put before the bypass has reached R through P and
\* a later one has reached R over the direct link.
C2_Witness ==
  /\ BypassBegun
  /\ \E a \in arrived :
       /\ a.via = "N2"
       /\ a.parcel.n >= routers["S"].descriptor.next_outgoing_sequence_number
  /\ \E a \in arrived : a.via = "N3"

\* R has accepted BypassProxy: its outward link is the direct link to N3.
BypassAccepted == routers["R"].outward_link.remote = "N3"

\* P is bound in no NodeLink's routes_ and no router has a link to it.
ProxyUnreferenced ==
  /\ \A l \in NodeLinks, routing_id \in RoutingIds :
       routes[l][routing_id] # "P"
  /\ \A r \in {"R", "S"} :
       /\ ~(routers[r].outward_link.valid
              /\ routers[r].outward_link.remote = "N2")
       /\ ~(routers[r].decaying_link.valid
              /\ routers[r].decaying_link.remote = "N2")

PendingEvents(p) ==
  {ti \in Threads \X (1..(MaxTrapPuts + 1)) :
     /\ ti[2] <= Len(dispatch_stack[ti[1]])
     /\ dispatch_stack[ti[1]][ti[2]].portal = p
     /\ dispatch_stack[ti[1]][ti[2]].pc \in {"deferred", "dispatching"}}

\* C12: every successful ArmTrap accounts for at most one handler
\* invocation: the invocations made, the events still to be dispatched and
\* the arming still in force never outnumber the successful ArmTrap calls.
\* A trap that is armed and not destroyed has no watched condition
\* satisfied, and every event carries the watched conditions its status
\* satisfies, at least one.
C12_OneInvocationPerArming ==
  \A p \in Portals :
    /\ num_invoked[p] + Cardinality(PendingEvents(p))
         + (IF trap[p].is_armed THEN 1 ELSE 0) <= num_armed[p]
    /\ trap[p].is_armed /\ trap[p].is_enabled =>
         GetEventFlags(trap[p].conditions, router_status[p]) = {}
    /\ \A t \in Threads : \A i \in 1..Len(dispatch_stack[t]) :
         dispatch_stack[t][i].portal = p =>
           /\ dispatch_stack[t][i].event.condition_flags # {}
           /\ dispatch_stack[t][i].event.condition_flags =
                GetEventFlags(trap[p].conditions,
                              dispatch_stack[t][i].event.status)

\* The trap on some portal was armed twice and its handler ran twice.
C12_Witness ==
  \E p \in Portals : num_armed[p] = 2 /\ num_invoked[p] = 2


\* C13: once a DestroyTrap call on a trap has returned, with or without
\* IPCZ_DESTROY_TRAP_BLOCKING, the trap's handler is not entered again.
C13_NoHandlerEntryAfterDestroy ==
  [][\A p \in Portals :
       destroyed[p] # "none" => num_invoked'[p] = num_invoked[p]]_vars


\* C14: a DestroyTrap call with IPCZ_DESTROY_TRAP_BLOCKING returns only when
\* no other thread is running the trap's handler.
C14_BlockingDestroyWaitsForHandlers ==
  [][\A p \in Portals :
       /\ destroyed[p] = "none"
       /\ destroyed'[p] = IPCZ_DESTROY_TRAP_BLOCKING
       => \A t \in Threads \ {tcall'.thread} : ~InHandler(t, p)]_vars


\* C15: an ArmTrap call on a trap that is enabled and not armed, made while
\* a watched condition is satisfied, returns FAILED_PRECONDITION, leaves the
\* trap not armed, defers no event and writes the satisfied condition flags
\* and the current status to the caller; made while no watched condition is
\* satisfied, as after the parcel has been read, it returns OK and arms the
\* trap.
C15_ArmWithConditionsMet ==
  [][\A t \in Threads, p \in Portals :
       DoArmTrap(t, p) /\ trap[p].is_enabled /\ ~trap[p].is_armed
       => LET flags == GetEventFlags(trap[p].conditions, router_status[p])
          IN
          IF flags # {}
          THEN /\ tcall'.result = "FAILED_PRECONDITION"
               /\ tcall'.satisfied_condition_flags = Written(flags)
               /\ tcall'.status = Written(router_status[p])
               /\ ~trap'[p].is_armed
               /\ trap' = trap
               /\ dispatch_stack' = dispatch_stack
          ELSE /\ tcall'.result = "OK"
               /\ trap'[p].is_armed]_vars

\* ArmTrap has just failed on a portal with a parcel queued and a trap that
\* is enabled and not armed, reporting the satisfied condition.
C15_Witness ==
  \E p \in Portals :
    /\ tcall.op = "ArmTrap" /\ tcall.portal = p
    /\ tcall.result = "FAILED_PRECONDITION"
    /\ tcall.satisfied_condition_flags =
         Written({IPCZ_TRAP_CONDITION_LOCAL_PARCELS})
    /\ router_status[p].num_local_parcels = 1
    /\ trap[p].is_enabled
    /\ ~trap[p].is_armed


\* C16: an ArmTrap call on a trap that is already armed returns
\* FAILED_PRECONDITION and leaves the trap armed.
C16_ArmingArmedTrapFailsPrecondition ==
  [][\A t \in Threads, p \in Portals :
       DoArmTrap(t, p) /\ trap[p].is_enabled /\ trap[p].is_armed
       => /\ tcall'.result = "FAILED_PRECONDITION"
          /\ trap'[p].is_armed]_vars


\* C17: a thread that is about to call or is running a trap's handler holds
\* the mutex of no trap, so the Put, Get, ArmTrap and DestroyTrap calls the
\* handler makes find every mutex the thread itself could hold released.
C17_HandlerRunsUnlocked ==
  \A t \in Threads :
    (\E i \in 1..Len(dispatch_stack[t]) :
       dispatch_stack[t][i].pc \in {"dispatching", "handler"})
    => \A p \in Portals : trap_mutex[p] # t

\* A thread runs a handler from inside which it triggered, and now runs, the
\* handler of the other trap, and it has destroyed the first trap from
\* inside a handler.
C17_Witness ==
  \E t \in Threads :
    /\ Len(dispatch_stack[t]) = 2
    /\ dispatch_stack[t][1].pc = "handler"
    /\ dispatch_stack[t][2].pc = "handler"
    /\ tcall.op = "DestroyTrap"
    /\ tcall.thread = t
    /\ tcall.portal = dispatch_stack[t][2].portal


(* ---------------------------------------------------------------------- *)
(* Properties of the MpmcQueue.                                            *)
(* ---------------------------------------------------------------------- *)

\* The cells that are full and hold value v.
FullCellsWith(v) ==
  {c \in 0..(kCapacity - 1) :
     HasFullBit(cells[c].status) /\ cells[c].data = v}

\* C18: every value for which PushBack returned true either sits in exactly
\* one full cell and has not been returned, or has been returned by exactly
\* one successful PopFront and sits in no full cell; PopFront returns only
\* values for which PushBack returned true.
C18_PushedValuesPoppedOnce ==
  /\ \A v \in pushed_ok :
       Cardinality(FullCellsWith(v)) + popped_ok[v] = 1
  /\ \A v \in 0..MaxValues : popped_ok[v] > 0 => v \in pushed_ok

\* Every value was pushed and popped, more values than the queue has cells,
\* so that a cell was used on a second lap.
C18_Witness ==
  /\ \A v \in 1..MaxValues : popped_ok[v] = 1
  /\ pushed_ok = 1..MaxValues
  /\ MaxValues > kCapacity


(* ---------------------------------------------------------------------- *)
(* Properties of Put with attached portals and limits.                     *)
(* ---------------------------------------------------------------------- *)

\* The Put is valid and would exceed its limits at the receiving side.
ExceedsLimits(sender, data_size, handles, limits) ==
  /\ ValidateAndAcquirePortalsForTransitFrom(sender, handles)
  /\ limits.given
  /\ WouldIncomingParcelExceedLimits(incoming[OutwardLink(sender).target],
                                     data_size, limits)

\* C19: a Put that would exceed its limits at the receiving side returns
\* RESOURCE_EXHAUSTED and sends nothing, whether the outward link of the
\* sender is local or remote.
C19_PutOverLimitsSendsNothing ==
  [][\A sender \in Senders, data_size \in ParcelSizes,
        handles \in AttachedHandles, limits \in LimitChoices :
       /\ put_call'.sender = sender
       /\ ExceedsLimits(sender, data_size, handles, limits)
       /\ DoPortalPut(sender, data_size, handles, limits)
       => /\ put_call'.result = "RESOURCE_EXHAUSTED"
          /\ incoming' = incoming
          /\ next_outgoing' = next_outgoing]_vars

\* The last Put attached the portal it was called on or that portal's
\* local peer.
OwnPortalOrPeerAttached(call) ==
  \E i \in 1..Len(call.handles) :
    \/ call.handles[i] = call.sender
    \/ /\ OutwardLink(call.sender).kind = "local"
       /\ call.handles[i] = OutwardLink(call.sender).target

\* C20: a Put whose attached portals include the sending portal or its
\* local peer returns INVALID_ARGUMENT, sends nothing, takes no sequence
\* number and leaves the attached portals with the caller.
C20_PutOfOwnPortalOrPeerRefused ==
  [][put_call'.sender \in Senders /\ OwnPortalOrPeerAttached(put_call')
     => /\ put_call'.result = "INVALID_ARGUMENT"
        /\ put_call' # put_call =>
             /\ incoming' = incoming
             /\ next_outgoing' = next_outgoing
             /\ in_transit' = in_transit]_vars

\* A Put on A that attached C and then B was refused after an earlier Put
\* on A had been sent, and C is still with the caller.
C20_Witness ==
  /\ put_call = [op |-> "Put", sender |-> "A", handles |-> <<"C", "B">>,
                 result |-> "INVALID_ARGUMENT"]
  /\ next_outgoing["A"] = 1
  /\ incoming["B"] # << >>
  /\ "C" \notin in_transit

\* A two-phase operation that commits or aborts.
SecondPhaseOps == {"CommitPut", "AbortPut", "CommitGet", "AbortGet"}

\* C24: at most one two-phase put and one two-phase get are in progress on
\* a portal at any time: Put or BeginPut issued while a two-phase put is in
\* progress, and Get or BeginGet issued while a two-phase get is in
\* progress, fail with ALREADY_EXISTS; CommitPut, AbortPut, CommitGet or
\* AbortGet issued when the corresponding two-phase operation was never
\* begun fails with FAILED_PRECONDITION.  Here no BeginPut and no BeginGet
\* on a portal has succeeded, so that every second-phase call is one on an
\* operation that was never begun.
C24_SecondPhaseWithoutFirstFailsPrecondition ==
  /\ put_call.op \in SecondPhaseOps
  /\ PortalTwoPhase("BeginPut") # "OK"
  /\ PortalTwoPhase("BeginGet") # "OK"
  => put_call.result = "FAILED_PRECONDITION"

\* The parcels P has received from R and forwarded to its successor, and
\* those it has received from its successor and forwarded to R: the
\* sequence numbers below the one each of its queues is waiting for.
ProxyForwardedInbound == current_sequence_number(routers["P"].inbound)
ProxyForwardedOutbound == current_sequence_number(routers["P"].outbound)

\* C29: a proxy that has received StopProxying stops proxying (is Dead and
\* bound to no routing id) only after it has received and forwarded every
\* parcel below the inbound sequence length and every parcel below the
\* outbound sequence length named in that message, and none of them is
\* still on its way to the proxy.
C29_ProxyStopsAfterForwarding ==
  routers["P"].mode = "Dead" \/ ProxyUnreferenced =>
    /\ stop_named.has
    /\ ProxyForwardedInbound >= stop_named.inbound_sequence_length
    /\ ProxyForwardedOutbound >= stop_named.outbound_sequence_length
    /\ \A l \in {<<"N1", "N2">>, <<"N3", "N2">>} :
         \A i \in 1..Len(transport[l]) :
           transport[l][i].type # "AcceptParcel"

\* C29 witness: the proxy is dead after a StopProxying that named parcels
\* in both directions, among them one that S put and the proxy forwarded
\* to R.
C29_Witness ==
  /\ routers["P"].mode = "Dead"
  /\ stop_named.has
  /\ stop_named.inbound_sequence_length > 0
  /\ stop_named.outbound_sequence_length
       > routers["S"].descriptor.next_outgoing_sequence_number
  /\ \E a \in arrived :
       /\ a.via = "N2"
       /\ a.parcel.n = stop_named.outbound_sequence_length - 1

\* The positions in the transport from N3 to N1 of the messages of `type`.
OnNewLink(type) ==
  {i \in 1..Len(transport[<<"N3", "N1">>]) :
     transport[<<"N3", "N1">>][i].type = type}

\* NodeLink::BypassProxy has not yet handed its message to the transport.
BypassProxyNotTransmitted ==
  routers["S"].bypass \in {"none", "requested", "linked"}

\* C30: when NodeLink::BypassProxy gives S its new outward link, S
\* transmits no parcel on the new sublink until the BypassProxy message has
\* been handed to the transport, parcels put meanwhile included: until then
\* no parcel is on the transport to N1 and none has reached R from N3, and
\* every parcel on that transport is behind the BypassProxy message, so
\* that none is dropped for want of a route.
C30_NoParcelBeforeBypassProxy ==
  /\ (BypassProxyNotTransmitted =>
        /\ OnNewLink("AcceptParcel") = {}
        /\ \A a \in arrived : a.via # "N3")
  /\ \A i \in OnNewLink("AcceptParcel"), j \in OnNewLink("BypassProxy") :
       j < i
  /\ dropped = {}

\* C30 witness: S has its new outward link, the BypassProxy message is not
\* yet transmitted, and a parcel put in this window is held in S's
\* outbound queue.
C30_Witness ==
  /\ routers["S"].bypass = "linked"
  /\ routers["S"].outward_link.remote = "N1"
  /\ routers["S"].paused > 0
  /\ HasNextElement(routers["S"].outbound)

(* ---------------------------------------------------------------------- *)
(* Properties of the portals attached to parcels.                          *)
(* ---------------------------------------------------------------------- *)

\* The portals the Parcels of a queue refer to.
HeldIn(parcels) ==
  UNION {Referenced(parcels[i].portals) : i \in 1..Len(parcels)}

\* The portals whose descriptors are in a message on the wire.
DescribedIn(messages) ==
  UNION {Referenced(messages[i].new_routers) : i \in 1..Len(messages)}

\* The portals some Parcel refers to.
HeldByParcel == HeldIn(outgoing_parcels) \cup HeldIn(incoming_parcels)

\* The portals that were attached to some Parcel: the sent portals that
\* were put, and the new portals made from the descriptors received.
WasAttached ==
  (SentPortals \ unattached)
    \cup {NewPortalOf(p) :
            p \in {q \in SentPortals :
                     disposed[q].on > 0 /\ q \notin DescribedIn(accept_messages)}}

NumDisposals(p) == disposed[p].app + disposed[p].on + disposed[p].closed

\* C25: every portal attached to a parcel is disposed of exactly once: it
\* is handed to the application that consumes the parcel, or handed on in
\* a transmitted parcel, or, if the parcel is dropped undelivered, closed;
\* it is never both handed over and closed, and never left neither handed
\* over nor closed.
C25_AttachedPortalDisposedOnce ==
  \A p \in SentPortals \cup ReceivedPortals :
    /\ NumDisposals(p) <= 1
    /\ p \in HeldByParcel => NumDisposals(p) = 0
    /\ p \in WasAttached \ HeldByParcel => NumDisposals(p) = 1
    /\ p \notin WasAttached => NumDisposals(p) = 0

\* C25 witness: of two portals sent in one parcel and received in a new
\* one, each disposition has happened: X was handed on and the portal made
\* for it was handed to the application, and the portal made for a second
\* sent portal was closed with a dropped parcel.
C25_Witness ==
  /\ disposed["X"].on = 1
  /\ disposed["X2"].app = 1
  /\ disposed["Y"].on = 1
  /\ disposed["Y2"].closed = 1

(* ---------------------------------------------------------------------- *)
(* Properties of a NodeLink and its routers.                               *)
(* ---------------------------------------------------------------------- *)

\* C26: destroying a node deactivates every one of its NodeLinks, and every
\* router that had a remote link over one of those NodeLinks then observes
\* peer closure.  The router of the node is bound to its NodeLink from the
\* start; Node::ShutDown has returned in every state that lists the node
\* in node_shut_down.
C26_ShutDownClosesRoutes ==
  \A n \in node_shut_down :
    /\ ~link_end[n].active
    /\ link_router[LinkRouterOf(n)].peer_closed

\* C27: when a NodeLink receives a malformed message (one that fails size
\* or handle-count validation, or that its handler rejects), that NodeLink
\* is deactivated and every router bound to one of its sublinks then
\* observes peer closure.  The state is the one in which the driver's
\* Notify for the message has returned.
C27_MalformedMessageDeactivatesLink ==
  notified.delivered /\ notified.result = "INVALID_ARGUMENT" =>
    /\ ~link_end[notified.to].active
    /\ link_router[LinkRouterOf(notified.to)].peer_closed

\* The router R took another outward link in this step.
OutwardLinkChanged ==
  routers'["R"].outward_link # routers["R"].outward_link

\* A msg::StopProxying was transmitted from N1 to the proxy in this step.
StopProxyingTransmitted ==
  LET before == transport[<<"N1", "N2">>]
      after == transport'[<<"N1", "N2">>] IN
  /\ Len(after) > Len(before)
  /\ after[Len(after)].type = "StopProxying"

\* The msg::BypassProxy that N1 took off the transport from `from` in this
\* step named a link of R to the proxy that the proxy's side holds locked
\* for `from`, and carried the key stored for that link.
AuthorizedBypassReceived(from) ==
  LET tr == transport[<<from, "N1">>] IN
  /\ tr # << >>
  /\ Head(tr).type = "BypassProxy"
  /\ transport'[<<from, "N1">>] = Tail(tr)
  /\ routers["R"].outward_link = Link(Head(tr).proxy_name, Head(tr).proxy_routing_id)
  /\ link_state.locked_by = "B"
  /\ link_state.allowed_bypass_request_source = from
  /\ Head(tr).bypass_key = BypassKey

\* C31: a router R acts on a BypassProxy request (takes the new sublink as
\* its outward link and tells the proxy to stop) only if the link state of
\* its link to the named proxy is locked by the proxy's side, the allowed
\* bypass source of that state is the node the request came from, and the
\* key of the request is the stored key; any other request leaves R's
\* outward link as it was.
C31_BypassOnlyWhenAuthorized ==
  [][(OutwardLinkChanged \/ StopProxyingTransmitted) =>
       \E from \in Nodes \ {"N1"} : AuthorizedBypassReceived(from)]_vars

\* R has acted on the request of N3 and has the StopProxying for the proxy
\* in flight, while a request of N2 that carries the stored key waits to be
\* received.
C31_Witness ==
  /\ routers["R"].outward_link.remote = "N3"
  /\ \E i \in 1..Len(transport[<<"N1", "N2">>]) :
       transport[<<"N1", "N2">>][i].type = "StopProxying"
  /\ transport[<<"N2", "N1">>] # << >>
  /\ Head(transport[<<"N2", "N1">>]).type = "BypassProxy"
  /\ Head(transport[<<"N2", "N1">>]).bypass_key = BypassKey

\* The message that has been notified to the NodeLink of node `to` in this
\* step passes the checks made before its routing id is looked up, and
\* names a routing id that RemoveRoute had removed from that NodeLink.
NotifiedForRemovedRoute(to) ==
  /\ notified'.delivered
  /\ notified'.to = to
  /\ notified'.message.message_id \in {"AcceptParcel", "SideClosed", "StopProxying"}
  /\ notified'.message.has_header /\ notified'.message.header_size_ok
  /\ notified'.message.has_params /\ notified'.message.handles_match
  /\ notified'.message.routing_id \in removed_routes[to]
  /\ node_shut_down' = node_shut_down
  /\ removed_routes' = removed_routes

\* C33: once a sublink has been removed from a NodeLink, a message received
\* for that sublink is ignored: it is delivered to no router, it is not
\* reported as an error, and the NodeLink stays active.  The messages are
\* AcceptParcel, SideClosed and StopProxying that pass the checks of size
\* and handle count, which come before the sublink is looked up.
C33_MessageForRemovedRouteIgnored ==
  [][\A to \in LinkNodes :
       NotifiedForRemovedRoute(to) =>
         /\ link_router' = link_router
         /\ notified'.result = "OK"
         /\ ~notified'.notifies_error
         /\ link_end'[to] = link_end[to]]_vars

\* Each of the three messages has been received for a removed routing id
\* of an active NodeLink: the last one is a StopProxying for N2, whose
\* router holds no parcel, has seen no closure and was not told to stop.
C33_Witness ==
  /\ notified.delivered
  /\ notified.to = "N2"
  /\ notified.message = TransportMessage("StopProxying", 0, TRUE, TRUE, TRUE, TRUE)
  /\ 0 \in removed_routes["N2"]
  /\ link_end["N2"].active
  /\ link_router["R2"] = [peer_closed |-> FALSE, num_parcels |-> 0, stopped |-> FALSE]

(* ---------------------------------------------------------------------- *)
(* Properties of introductions.                                            *)
(* ---------------------------------------------------------------------- *)

\* C32: every IntroduceNode message a broker sends through
\* NodeLink::IntroduceNode, the one that indicates failure (known = false,
\* no transport, no memory handle) included, is accepted by the NodeLink
\* that receives it, and the node then invokes all callbacks pending for
\* the name.
C32_EveryIntroductionAccepted ==
  introduced.delivered =>
    /\ introduced.result = "OK"
    /\ introduced.callbacks_invoked = introduced.callbacks_pending

(* ---------------------------------------------------------------------- *)
(* Properties of the lock of a RouterLinkState.                            *)
(* ---------------------------------------------------------------------- *)

\* C34: CanNodeRequestBypass(N) on one side of a link returns true only
\* while the opposite side holds the link-state lock that it obtained
\* through TryLockForBypass naming N; it is never true on the strength of
\* an allowed source left by an earlier lock, or read before the holder of
\* the lock has written its source.
C34_BypassAllowedOnlyUnderItsLock ==
  can_request.called /\ can_request.result =>
    can_request.held = HeldForBypass(can_request.source)

(* ---------------------------------------------------------------------- *)
(* Properties of a RemoteRouterLink that gets its link state late.         *)
(* ---------------------------------------------------------------------- *)

\* C35: for a central RemoteRouterLink, if MarkSideStable is called at any
\* time, then once SetLinkState has installed the link state the shared
\* RouterLinkState has this side marked stable, however the calls of
\* MarkSideStable and SetLinkState interleave.  The state is one in which
\* MarkSideStable and the SetLinkState that installed the state have
\* returned.
C35_StableSideReachesLinkState ==
  /\ link_thread[MarkerThread] = "returned"
  /\ \E t \in SetterThreads : link_thread[t] = "installed"
  => state_side_stable

(* ---------------------------------------------------------------------- *)
(* Properties of NodeLink::Deactivate.                                     *)
(* ---------------------------------------------------------------------- *)

\* Every call of Deactivate that was made has returned.
AllDeactivateCallsReturned ==
  \A t \in DeactivateThreads \cup {DestructorThread} :
    deactivate_call[t] \in {"none", "returned"}

\* C38: NodeLink::Deactivate may be called any number of times, also
\* concurrently and again from the destructor: the transport is deactivated
\* exactly once, and after any call has returned no router is reachable
\* through a sublink that was bound before that call.
C38_DeactivateOnceAndUnbind ==
  /\ num_transport_deactivations <= 1
  /\ (AllDeactivateCallsReturned
        /\ (\E t \in DeactivateThreads \cup {DestructorThread} :
              num_deactivate_calls[t] > 0)
      => num_transport_deactivations = 1)
  /\ \A t \in DeactivateThreads \cup {DestructorThread} :
       deactivate_call[t] = "returned" =>
         \A id \in bound_before[t] :
           GetRouter(deactivated_link.routes, id) = NoRouter

\* T1 has released the mutex and has not yet deactivated the transport;
\* meanwhile a route was bound, and a call of T2 has removed it and has
\* returned.
C38_Witness ==
  /\ deactivate_call["T1"] = "unlocked"
  /\ deactivate_call["T2"] = "returned"
  /\ bound_before["T2"] = {1}
  /\ num_transport_deactivations = 0

(* ---------------------------------------------------------------------- *)
(* Properties of the single-process transport.                             *)
(* ---------------------------------------------------------------------- *)

\* C39: the messages transmitted on a single-process transport before its
\* peer is activated are all delivered once the peer activates, in the
\* order they were transmitted and before any message transmitted later;
\* none is lost or duplicated, also when Transmit runs while the peer is
\* being activated.  Messages are numbered in the order in which the calls
\* of Transmit take the mutex.  The messages Transmit saved are notified
\* in increasing order, each before every message with a greater number;
\* no message is notified twice; and all messages transmitted have been
\* notified once Activate has returned and no Transmit is running.
C39_SavedMessagesDeliveredInOrder ==
  /\ \A i, j \in 1..Len(notified_messages) :
       /\ i < j => notified_messages[i] # notified_messages[j]
       /\ i < j /\ notified_messages[j] \in saved_numbers
            => notified_messages[i] < notified_messages[j]
  /\ (activate_call = "returned" /\ \A t \in TransmitThreads : transmit_call[t] = "none")
        => {notified_messages[i] : i \in 1..Len(notified_messages)}
             = 1..num_transmits

\* Two messages were saved before the peer was activated, a third went
\* into Transmit while OnPeerActivated was notifying them and was saved and
\* notified after them, and Activate has returned.
C39_Witness ==
  /\ activate_call = "returned"
  /\ \A t \in TransmitThreads : transmit_call[t] = "none"
  /\ notified_messages = <<1, 2, 3>>
  /\ saved_numbers = {1, 2, 3}

====
